---- MODULE Spec2Model ----
(***************************************************************************)
(* Adaptive quality-gating loop of 4co4co-pipeline.                        *)
(*                                                                         *)
(* Three controllers share one retry loop (process_prompt_adaptive):       *)
(*   EnhancedAdaptiveMusicPipeline   src/run_enhanced_pipeline.py          *)
(*   AdaptiveMusicQualityPipeline    src/pipeline/adaptive_pipeline.py     *)
(*   AdaptiveMusicPipeline           src/run_pipeline.py                   *)
(* The generator, the signal transforms (STFT, beat tracking, ...), the    *)
(* audio writers and the similarity oracle are external: their outcomes    *)
(* are inputs.  Wall-clock fields (evaluation_time, total_time,            *)
(* stage_times) are left out of the records.  Real numbers are exact       *)
(* rationals [num, den] in lowest terms.                                   *)
(***************************************************************************)
EXTENDS Integers, Sequences, FiniteSets, TLC

(***************************************************************************)
(* Rational arithmetic                                                     *)
(***************************************************************************)
Abs(i) == IF i < 0 THEN -i ELSE i

RECURSIVE GCD(_, _)
GCD(a, b) == IF b = 0 THEN a ELSE GCD(b, a % b)

Rat(n, d) ==
    LET g == GCD(Abs(n), Abs(d))
        s == IF d < 0 THEN -1 ELSE 1
    IN  [num |-> (s * n) \div g, den |-> (s * d) \div g]

RatAdd(a, b) == Rat(a.num * b.den + b.num * a.den, a.den * b.den)
RatSub(a, b) == Rat(a.num * b.den - b.num * a.den, a.den * b.den)
RatMul(a, b) == Rat(a.num * b.num, a.den * b.den)
RatDiv(a, b) == Rat(a.num * b.den, a.den * b.num)
RatLt(a, b) == a.num * b.den < b.num * a.den
RatLeq(a, b) == a.num * b.den <= b.num * a.den
RatMax(a, b) == IF RatLt(a, b) THEN b ELSE a
RatMin(a, b) == IF RatLt(b, a) THEN b ELSE a

\* Python's None in a position that otherwise holds a dict.
None == [none |-> TRUE]
\* Python's None in a position that otherwise holds a string.
NoneStr == "None"

(***************************************************************************)
(* Number formatting: f"{x:.Nf}" for x >= 0.  The value is rounded to N    *)
(* decimals (ties upward; the inputs of this model produce no ties) and    *)
(* printed with exactly N decimals.                                        *)
(***************************************************************************)
RECURSIVE Pow10(_)
Pow10(n) == IF n = 0 THEN 1 ELSE 10 * Pow10(n - 1)

RECURSIVE PadDigits(_, _)
PadDigits(v, n) ==
    IF n = 0 THEN "" ELSE PadDigits(v \div 10, n - 1) \o ToString(v % 10)

Fmt(x, n) ==
    LET scaled == (2 * x.num * Pow10(n) + x.den) \div (2 * x.den)
    IN  ToString(scaled \div Pow10(n)) \o "." \o PadDigits(scaled % Pow10(n), n)

(***************************************************************************)
(* A clip, as the filters see it.  n samples at sr Hz; the spectral        *)
(* transform of the clip either fails (stft_error is the message) or       *)
(* gives, per time frame, whether the band is dominant: hf (>= 8000 Hz,    *)
(* ratio > 0.5), low (<= 80 Hz, ratio > 0.6), high (>= 15000 Hz, ratio >   *)
(* 0.4); the three sequences have one entry per frame.  musical holds the  *)
(* four musical check results and sem the outcome of the similarity        *)
(* oracle for the clip.                                                    *)
(***************************************************************************)
CheckResult(passed, score, reason) ==
    [passed |-> passed, score |-> score, reason |-> reason]

Zero == Rat(0, 1)
One == Rat(1, 1)

\* Variant: a non-dominant frame does not end the current run.
ScanFrame_NoReset(acc, is_dominant) ==
    IF is_dominant
    THEN [cur |-> acc.cur + 1,
          max |-> IF acc.max < acc.cur + 1 THEN acc.cur + 1 ELSE acc.max]
    ELSE [cur |-> acc.cur, max |-> acc.max]

\* The run-length scan shared by the spectral checks: the loop body over
\* one frame, on the pair (current run, longest run), counted in frames.
ScanFrame(acc, is_dominant) ==
    IF is_dominant
    THEN [cur |-> acc.cur + 1,
          max |-> IF acc.max < acc.cur + 1 THEN acc.cur + 1 ELSE acc.max]
    ELSE [cur |-> 0, max |-> acc.max]

RECURSIVE ScanFrames(_, _)
ScanFrames(acc, frames) ==
    IF frames = << >> THEN acc
    ELSE ScanFrames(ScanFrame(acc, Head(frames)), Tail(frames))

max_continuous_frames(frames) == ScanFrames([cur |-> 0, max |-> 0], frames).max

\* frame_duration = len(audio_data) / sample_rate / len(t)
frame_duration(clip, frames) == Rat(clip.n, clip.sr * Len(frames))

\* Variant: a clip exactly at the minimum duration is rejected.
check_duration_StrictBoundary(clip, expected_duration, tolerance) ==
    IF clip.sr = 0
    THEN CheckResult(FALSE, Zero, "Duration check error: division by zero")
    ELSE LET actual_duration == Rat(clip.n, clip.sr)
             min_duration == RatSub(expected_duration, tolerance)
         IN  IF RatLeq(actual_duration, min_duration)
             THEN CheckResult(FALSE, RatDiv(actual_duration, expected_duration),
                              "Too short: " \o Fmt(actual_duration, 1)
                              \o "s (expected: " \o Fmt(expected_duration, 1) \o "s)")
             ELSE CheckResult(TRUE, One,
                              "Duration OK: " \o Fmt(actual_duration, 1) \o "s")

\* Variant: the score is the ratio of the durations whether the check
\* passes or not.
check_duration_RatioScore(clip, expected_duration, tolerance) ==
    IF clip.sr = 0
    THEN CheckResult(FALSE, Zero, "Duration check error: division by zero")
    ELSE LET actual_duration == Rat(clip.n, clip.sr)
             min_duration == RatSub(expected_duration, tolerance)
         IN  IF RatLt(actual_duration, min_duration)
             THEN CheckResult(FALSE, RatDiv(actual_duration, expected_duration),
                              "Too short: " \o Fmt(actual_duration, 1)
                              \o "s (expected: " \o Fmt(expected_duration, 1) \o "s)")
             ELSE CheckResult(TRUE, RatDiv(actual_duration, expected_duration),
                              "Duration OK: " \o Fmt(actual_duration, 1) \o "s")

check_duration(clip, expected_duration, tolerance) ==
    IF clip.sr = 0
    THEN CheckResult(FALSE, Zero, "Duration check error: division by zero")
    ELSE LET actual_duration == Rat(clip.n, clip.sr)
             min_duration == RatSub(expected_duration, tolerance)
         IN  IF RatLt(actual_duration, min_duration)
             THEN CheckResult(FALSE, RatDiv(actual_duration, expected_duration),
                              "Too short: " \o Fmt(actual_duration, 1)
                              \o "s (expected: " \o Fmt(expected_duration, 1) \o "s)")
             ELSE CheckResult(TRUE, One,
                              "Duration OK: " \o Fmt(actual_duration, 1) \o "s")

(***************************************************************************)
(* check_volume_cutoff.  audio_data is the sequence of samples.  The RMS   *)
(* of a window is a square root; with windows of two samples drawn from    *)
(* 0, 1 and 7 it is a number p + q/sqrt(2) with p, q natural, kept exactly *)
(* as Surd(p, q).  A score is the quotient of two such numbers.  The       *)
(* percentage printed in the failure reason is not modelled.               *)
(***************************************************************************)
Surd(p, q) == [p |-> p, q |-> q]

SurdAdd(x, y) == Surd(x.p + y.p, x.q + y.q)

SurdScale(k, x) == Surd(k * x.p, k * x.q)

\* twice the product: (p1 + q1/r)(p2 + q2/r) with r*r = 2
SurdMul2(x, y) == Surd(2 * x.p * y.p + x.q * y.q, 2 * (x.p * y.q + x.q * y.p))

\* the sign of p + q/sqrt(2): -1, 0 or 1
SurdSign(x) ==
    IF x.p = 0 /\ x.q = 0 THEN 0
    ELSE IF x.p >= 0 /\ x.q >= 0 THEN 1
    ELSE IF x.p <= 0 /\ x.q <= 0 THEN -1
    ELSE IF x.p > 0 THEN (IF 2 * x.p * x.p > x.q * x.q THEN 1 ELSE -1)
    ELSE (IF x.q * x.q > 2 * x.p * x.p THEN 1 ELSE -1)

SurdQuot(num, den) == [num |-> num, den |-> den]

SurdOne == SurdQuot(Surd(1, 0), Surd(1, 0))

SurdZero == SurdQuot(Surd(0, 0), Surd(1, 0))

\* x < y for quotients with positive denominators
SurdQuotLt(x, y) ==
    SurdSign(SurdAdd(SurdMul2(x.num, y.den),
                     SurdScale(-1, SurdMul2(y.num, x.den)))) < 0

\* np.sqrt(np.mean(window**2)) for a window of two samples
WindowRms(a, b) ==
    LET sum == a * a + b * b
    IN  IF \E m \in 0..(a + b) : 2 * m * m = sum
        THEN Surd(CHOOSE m \in 0..(a + b) : 2 * m * m = sum, 0)
        ELSE Surd(0, CHOOSE m \in 0..(a + b) : m * m = sum)

\* sum(rms_values[first:last]) over 1-based positions first..last
RECURSIVE SumRms(_, _, _)
SumRms(audio_data, first, last) ==
    IF first > last THEN Surd(0, 0)
    ELSE SurdAdd(WindowRms(audio_data[first], audio_data[first + 1]),
                 SumRms(audio_data, first + 1, last))

check_volume_cutoff(audio_data, sample_rate, cutoff_threshold) ==
    LET window_size == sample_rate \div 10
        hop == window_size \div 2
        \* range(0, len(audio_data) - window_size, window_size // 2)
        count == IF Len(audio_data) > window_size
                 THEN Len(audio_data) - window_size ELSE 0
        \* int(cutoff_threshold / 0.05)
        cutoff_samples == (cutoff_threshold.num * 20) \div cutoff_threshold.den
        end_count == IF cutoff_samples = 0 THEN count ELSE cutoff_samples
        beginning_count == count \div 4
        sum_end == SumRms(audio_data, count - end_count + 1, count)
        sum_beginning == SumRms(audio_data, 1, beginning_count)
        \* avg_end / avg_beginning
        volume_ratio ==
            IF SurdSign(sum_beginning) = 0 THEN SurdOne
            ELSE SurdQuot(SurdScale(beginning_count, sum_end),
                          SurdScale(end_count, sum_beginning))
    IN  IF Len(audio_data) < window_size
        THEN CheckResult(TRUE, SurdOne, "Audio too short to check")
        ELSE IF hop = 0
        THEN CheckResult(FALSE, SurdZero,
                         "Volume check error: range() arg 3 must not be zero")
        ELSE IF count < cutoff_samples
        THEN CheckResult(TRUE, SurdOne, "Too short to check cutoff")
        ELSE IF beginning_count = 0
        THEN CheckResult(TRUE, SurdOne, "Too short")
        ELSE IF SurdQuotLt(volume_ratio, SurdQuot(Surd(1, 0), Surd(2, 0)))
        THEN CheckResult(FALSE, volume_ratio, "Volume drops at the end")
        ELSE CheckResult(TRUE, volume_ratio, "Volume stable")

check_high_frequency_noise(clip, freq_threshold, duration_threshold) ==
    IF clip.stft_error # NoneStr \/ clip.sr = 0 \/ Len(clip.hf) = 0
    THEN CheckResult(FALSE, Zero, "Frequency check error: " \o
                     (IF clip.stft_error # NoneStr THEN clip.stft_error
                      ELSE "division by zero"))
    ELSE IF clip.sr < 2 * freq_threshold
    THEN CheckResult(TRUE, One, "No high frequency content")
    ELSE LET max_continuous_duration ==
                 RatMul(Rat(max_continuous_frames(clip.hf), 1),
                        frame_duration(clip, clip.hf))
         IN  IF RatLt(duration_threshold, max_continuous_duration)
             THEN CheckResult(FALSE,
                              RatSub(One, RatDiv(max_continuous_duration,
                                                 duration_threshold)),
                              "High frequency noise for "
                              \o Fmt(max_continuous_duration, 1) \o "s")
             ELSE CheckResult(TRUE, One, "Frequency spectrum normal")

\* Variant: the high band is tested before the low band.
check_extreme_frequencies_HighFirst(clip, low_freq_threshold, high_freq_threshold, duration_threshold) ==
    IF clip.stft_error # NoneStr \/ clip.sr = 0 \/ Len(clip.low) = 0
    THEN CheckResult(FALSE, Zero, "Extreme frequency check error: " \o
                     (IF clip.stft_error # NoneStr THEN clip.stft_error
                      ELSE "division by zero"))
    ELSE LET no_frames == [i \in 1..Len(clip.low) |-> FALSE]
             \* f[0] = 0 Hz is always <= low_freq_threshold >= 0
             low_dominant_frames == clip.low
             high_dominant_frames ==
                 IF clip.sr >= 2 * high_freq_threshold THEN clip.high ELSE no_frames
             max_low_duration ==
                 RatMul(Rat(max_continuous_frames(low_dominant_frames), 1),
                        frame_duration(clip, clip.low))
             max_high_duration ==
                 RatMul(Rat(max_continuous_frames(high_dominant_frames), 1),
                        frame_duration(clip, clip.low))
         IN  IF RatLt(duration_threshold, max_high_duration)
             THEN CheckResult(FALSE,
                              RatSub(One, RatDiv(max_high_duration, duration_threshold)),
                              "Too much high frequency (>" \o ToString(high_freq_threshold)
                              \o "Hz) for " \o Fmt(max_high_duration, 1) \o "s")
             ELSE IF RatLt(duration_threshold, max_low_duration)
             THEN CheckResult(FALSE,
                              RatSub(One, RatDiv(max_low_duration, duration_threshold)),
                              "Too much low frequency (<" \o ToString(low_freq_threshold)
                              \o "Hz) for " \o Fmt(max_low_duration, 1) \o "s")
             ELSE CheckResult(TRUE, One, "Frequency range normal")

check_extreme_frequencies(clip, low_freq_threshold, high_freq_threshold, duration_threshold) ==
    IF clip.stft_error # NoneStr \/ clip.sr = 0 \/ Len(clip.low) = 0
    THEN CheckResult(FALSE, Zero, "Extreme frequency check error: " \o
                     (IF clip.stft_error # NoneStr THEN clip.stft_error
                      ELSE "division by zero"))
    ELSE LET no_frames == [i \in 1..Len(clip.low) |-> FALSE]
             \* f[0] = 0 Hz is always <= low_freq_threshold >= 0
             low_dominant_frames == clip.low
             high_dominant_frames ==
                 IF clip.sr >= 2 * high_freq_threshold THEN clip.high ELSE no_frames
             max_low_duration ==
                 RatMul(Rat(max_continuous_frames(low_dominant_frames), 1),
                        frame_duration(clip, clip.low))
             max_high_duration ==
                 RatMul(Rat(max_continuous_frames(high_dominant_frames), 1),
                        frame_duration(clip, clip.low))
         IN  IF RatLt(duration_threshold, max_low_duration)
             THEN CheckResult(FALSE,
                              RatSub(One, RatDiv(max_low_duration, duration_threshold)),
                              "Too much low frequency (<" \o ToString(low_freq_threshold)
                              \o "Hz) for " \o Fmt(max_low_duration, 1) \o "s")
             ELSE IF RatLt(duration_threshold, max_high_duration)
             THEN CheckResult(FALSE,
                              RatSub(One, RatDiv(max_high_duration, duration_threshold)),
                              "Too much high frequency (>" \o ToString(high_freq_threshold)
                              \o "Hz) for " \o Fmt(max_high_duration, 1) \o "s")
             ELSE CheckResult(TRUE, One, "Frequency range normal")

\* Default parameters of the basic checks.
expected_duration_default == Rat(12, 1)
tolerance_default == Rat(1, 1)
freq_threshold_default == 8000
duration_threshold_default == Rat(3, 1)
low_freq_threshold_default == 80
high_freq_threshold_default == 15000

QualityResult(duration_result, high_freq_result, extreme_freq_result) ==
    [duration |-> duration_result,
     high_frequency |-> high_freq_result,
     extreme_frequencies |-> extreme_freq_result,
     overall_passed |-> /\ duration_result.passed
                        /\ high_freq_result.passed
                        /\ extreme_freq_result.passed]

run_all_checks(clip) ==
    QualityResult(
        check_duration(clip, expected_duration_default, tolerance_default),
        check_high_frequency_noise(clip, freq_threshold_default,
                                   duration_threshold_default),
        check_extreme_frequencies(clip, low_freq_threshold_default,
                                  high_freq_threshold_default,
                                  duration_threshold_default))

\* AdaptiveMusicQualityPipeline._run_quality_checks_with_log
AMQP_run_quality_checks_with_log(clip) ==
    QualityResult(
        check_duration(clip, expected_duration_default, tolerance_default),
        check_high_frequency_noise(clip, freq_threshold_default,
                                   duration_threshold_default),
        check_extreme_frequencies(clip, low_freq_threshold_default,
                                  high_freq_threshold_default,
                                  duration_threshold_default))

\* Variant: the inline copy leaves the extreme-frequency result out of the
\* verdict.
AMP_run_quality_checks_with_log_NoExtreme(clip) ==
    [QualityResult(
        check_duration(clip, expected_duration_default, tolerance_default),
        check_high_frequency_noise(clip, freq_threshold_default,
                                   duration_threshold_default),
        check_extreme_frequencies(clip, low_freq_threshold_default,
                                  high_freq_threshold_default,
                                  duration_threshold_default))
     EXCEPT !.overall_passed =
        /\ check_duration(clip, expected_duration_default, tolerance_default).passed
        /\ check_high_frequency_noise(clip, freq_threshold_default,
                                      duration_threshold_default).passed]

\* AdaptiveMusicPipeline._run_quality_checks_with_log
AMP_run_quality_checks_with_log(clip) ==
    QualityResult(
        check_duration(clip, expected_duration_default, tolerance_default),
        check_high_frequency_noise(clip, freq_threshold_default,
                                   duration_threshold_default),
        check_extreme_frequencies(clip, low_freq_threshold_default,
                                  high_freq_threshold_default,
                                  duration_threshold_default))

(***************************************************************************)
(* Musical completeness group: the four checks' results are the clip's     *)
(* musical field (the pitch/beat/harmonic decompositions are external).    *)
(* A field of the form [raised |-> e] says that the analysis inside that   *)
(* check raises e; the check's handler then returns its default.           *)
(***************************************************************************)
\* Variant: a rhythm analysis that raises fails the check like the others.
check_rhythm_consistency_ErrorFails(clip) ==
    IF "raised" \in DOMAIN clip.musical.rhythm
    THEN CheckResult(FALSE, Zero,
                     "Rhythm check error: " \o clip.musical.rhythm.raised)
    ELSE clip.musical.rhythm

check_rhythm_consistency(clip) ==
    IF "raised" \in DOMAIN clip.musical.rhythm
    THEN CheckResult(TRUE, Rat(7, 10),
                     "Rhythm check error (default pass): "
                     \o clip.musical.rhythm.raised)
    ELSE clip.musical.rhythm

check_melody_existence(clip) ==
    IF "raised" \in DOMAIN clip.musical.melody
    THEN CheckResult(FALSE, Zero,
                     "Melody check error: " \o clip.musical.melody.raised)
    ELSE clip.musical.melody

check_harmonic_balance(clip) ==
    IF "raised" \in DOMAIN clip.musical.harmonic
    THEN CheckResult(FALSE, Zero,
                     "Harmonic balance check error: " \o clip.musical.harmonic.raised)
    ELSE clip.musical.harmonic

check_musical_flow(clip) ==
    IF "raised" \in DOMAIN clip.musical.flow
    THEN CheckResult(FALSE, Zero,
                     "Musical flow check error: " \o clip.musical.flow.raised)
    ELSE clip.musical.flow

\* Variant: a check that failed counts as 0 in the average.
run_musical_checks_PassedOnly(clip) ==
    LET rhythm_result == check_rhythm_consistency(clip)
        melody_result == check_melody_existence(clip)
        harmonic_result == check_harmonic_balance(clip)
        flow_result == check_musical_flow(clip)
        results == <<rhythm_result, melody_result, harmonic_result, flow_result>>
        passed_count == Cardinality({i \in 1..4 : results[i].passed})
        overall_passed == passed_count >= 2
        counted(r) == IF r.passed THEN r.score ELSE Zero
        avg_score == RatDiv(RatAdd(RatAdd(counted(results[1]), counted(results[2])),
                                   RatAdd(counted(results[3]), counted(results[4]))),
                            Rat(4, 1))
    IN  [rhythm |-> rhythm_result,
         melody |-> melody_result,
         harmonic |-> harmonic_result,
         flow |-> flow_result,
         passed |-> overall_passed,
         passed_count |-> passed_count,
         avg_score |-> avg_score,
         reason |-> "Musical completeness: " \o ToString(passed_count)
                    \o "/4 checks passed (avg score: " \o Fmt(avg_score, 3) \o ")"]

run_musical_checks(clip) ==
    LET rhythm_result == check_rhythm_consistency(clip)
        melody_result == check_melody_existence(clip)
        harmonic_result == check_harmonic_balance(clip)
        flow_result == check_musical_flow(clip)
        results == <<rhythm_result, melody_result, harmonic_result, flow_result>>
        passed_count == Cardinality({i \in 1..4 : results[i].passed})
        overall_passed == passed_count >= 2
        avg_score == RatDiv(RatAdd(RatAdd(results[1].score, results[2].score),
                                   RatAdd(results[3].score, results[4].score)),
                            Rat(4, 1))
    IN  [rhythm |-> rhythm_result,
         melody |-> melody_result,
         harmonic |-> harmonic_result,
         flow |-> flow_result,
         passed |-> overall_passed,
         passed_count |-> passed_count,
         avg_score |-> avg_score,
         reason |-> "Musical completeness: " \o ToString(passed_count)
                    \o "/4 checks passed (avg score: " \o Fmt(avg_score, 3) \o ")"]

(***************************************************************************)
(* Semantic alignment.  clap is whether the similarity model was loaded;   *)
(* clip.sem.error is the message of the exception raised in the try block  *)
(* of check_prompt_alignment (the scratch file could not be written),      *)
(* NoneStr when there is none; clip.sem.sims gives, per text the clip is   *)
(* compared with, what the similarity oracle does: it returns a number or  *)
(* it raises (SimilarityFailure).                                          *)
(***************************************************************************)
SimilarityFailure == [raised |-> "CLAP failure"]

\* prompt.lower() as its words, for the prompts of the model (single-spaced
\* words without punctuation).
Words(prompt_) ==
    CASE prompt_ = "a calm jazz piece with upright bass" ->
             <<"a", "calm", "jazz", "piece", "with", "upright", "bass">>
      [] prompt_ = "lofi beats" -> <<"lofi", "beats">>
      [] prompt_ = "An acoustic guitar ballad" ->
             <<"an", "acoustic", "guitar", "ballad">>
      [] prompt_ = "double bass solo" -> <<"double", "bass", "solo">>
      [] prompt_ = "A sad piano piece" -> <<"a", "sad", "piano", "piece">>
      [] prompt_ = "happy violin and electric guitar music" ->
             <<"happy", "violin", "and", "electric", "guitar", "music">>
      [] prompt_ = "electric guitar over upright bass" ->
             <<"electric", "guitar", "over", "upright", "bass">>
      [] prompt_ = "A rock in a sad and happy mood with drums and guitars" ->
             <<"a", "rock", "in", "a", "sad", "and", "happy", "mood", "with",
               "drums", "and", "guitars">>
      [] prompt_ = "bassoon and flute" -> <<"bassoon", "and", "flute">>
      [] prompt_ = "serene harp" -> <<"serene", "harp">>

emotion_keywords ==
    <<"joy", "sad", "happy", "melancholy", "energetic", "calm",
      "peaceful", "dramatic", "romantic", "mysterious", "upbeat",
      "pleasure", "excitement", "sorrow", "anger", "fear", "love",
      "esteem", "dignity", "dignified", "refined", "elegant", "noble",
      "contemplative", "reflective", "serene", "graceful">>

instrument_keywords ==
    <<"piano", "guitar", "violin", "drums", "bass", "synth",
      "saxophone", "trumpet", "flute", "cello", "organ", "harp",
      "clarinet", "trombone", "oboe", "bassoon", "viola", "double bass",
      "upright bass", "electric guitar", "acoustic guitar">>

\* The words of a keyword.
KeywordWords(keyword) ==
    CASE keyword = "double bass" -> <<"double", "bass">>
      [] keyword = "upright bass" -> <<"upright", "bass">>
      [] keyword = "electric guitar" -> <<"electric", "guitar">>
      [] keyword = "acoustic guitar" -> <<"acoustic", "guitar">>
      [] OTHER -> <<keyword>>

\* `part in word` for the words of the model: a word holds itself and the
\* words it starts with.
Contains(word, part) ==
    word = part \/ <<part, word>> \in {<<"bass", "bassoon">>, <<"guitar", "guitars">>}

\* `keyword in prompt.lower()`
Occurs(keyword, words) ==
    LET k == KeywordWords(keyword)
    IN  IF Len(k) = 1
        THEN \E i \in 1..Len(words) : Contains(words[i], k[1])
        ELSE \E i \in 1..(Len(words) - 1) :
                 words[i] = k[1] /\ Contains(words[i + 1], k[2])

\* for keyword in keywords: if keyword in prompt.lower(): ...; break
FirstMatch(keywords, words) ==
    LET hits == {i \in 1..Len(keywords) : Occurs(keywords[i], words)}
    IN  IF hits = {} THEN ""
        ELSE keywords[CHOOSE i \in hits : \A j \in hits : i <= j]

\* The three genre patterns, tried in order; each takes the leftmost match:
\* "a X piece|ensemble|music", "X piece|ensemble|music", "a X in".
GenreMatch(words) ==
    LET tails == {"piece", "ensemble", "music"}
        first(hits) == CHOOSE i \in hits : \A j \in hits : i <= j
        p1 == {i \in 1..(Len(words) - 2) : words[i] = "a" /\ words[i + 2] \in tails}
        p2 == {i \in 1..(Len(words) - 1) : words[i + 1] \in tails}
        p3 == {i \in 1..(Len(words) - 2) : words[i] = "a" /\ words[i + 2] = "in"}
    IN  IF p1 # {} THEN words[first(p1) + 1]
        ELSE IF p2 # {} THEN words[first(p2)]
        ELSE IF p3 # {} THEN words[first(p3) + 1]
        ELSE ""

parse_prompt_components(prompt_) ==
    LET words == Words(prompt_)
    IN  [genre |-> GenreMatch(words),
         emotion |-> FirstMatch(emotion_keywords, words),
         instrument |->
             IF Occurs("upright bass", words) THEN "upright bass"
             ELSE IF Occurs("electric guitar", words) THEN "electric guitar"
             ELSE FirstMatch(instrument_keywords, words),
         full_prompt |-> prompt_]

\* An empty text and an exception of the oracle both give the default;
\* the similarity is clipped to [0, 1].
_calculate_similarity(similarity, text_prompt) ==
    IF text_prompt = "" THEN Rat(15, 100)
    ELSE IF "raised" \in DOMAIN similarity THEN Rat(15, 100)
    ELSE RatMax(Zero, RatMin(One, similarity))

SemanticDefault(score, reason) ==
    [passed |-> TRUE,
     weighted_score |-> score,
     scores |-> [full_prompt |-> score, genre |-> score,
                 emotion |-> score, instrument |-> score],
     reason |-> reason]

check_prompt_alignment(clip, clap_, prompt_) ==
    IF ~clap_
    THEN SemanticDefault(Rat(25, 100), "CLAP not available - default pass")
    ELSE IF clip.sem.error # NoneStr
    THEN SemanticDefault(Rat(20, 100),
                         "Prompt alignment check error (default pass): "
                         \o clip.sem.error)
    ELSE LET components == parse_prompt_components(prompt_)
             sims == clip.sem.sims
             scores ==
                 [full_prompt |-> _calculate_similarity(sims.full_prompt,
                                                        components.full_prompt),
                  genre |-> IF components.genre # ""
                            THEN _calculate_similarity(sims.genre, components.genre)
                            ELSE Rat(15, 100),
                  emotion |-> IF components.emotion # ""
                              THEN _calculate_similarity(sims.emotion,
                                                         components.emotion)
                              ELSE Rat(15, 100),
                  instrument |-> IF components.instrument # ""
                                 THEN _calculate_similarity(sims.instrument,
                                                            components.instrument)
                                 ELSE Rat(15, 100)]
             weighted_score ==
                 RatAdd(RatAdd(RatMul(scores.full_prompt, Rat(4, 10)),
                               RatMul(scores.emotion, Rat(3, 10))),
                        RatAdd(RatMul(scores.genre, Rat(2, 10)),
                               RatMul(scores.instrument, Rat(1, 10))))
         IN  [passed |-> RatLeq(Rat(15, 100), weighted_score),
              weighted_score |-> weighted_score,
              scores |-> scores,
              reason |-> "Prompt alignment: " \o Fmt(weighted_score, 3)
                         \o " (threshold: 0.15)"]

(***************************************************************************)
(* The scratch file of check_prompt_alignment.  files is the set of        *)
(* clap_eval_*.wav files in the temp directory, each named by a number;    *)
(* mkstemp creates a file with a name not in use.  When                    *)
(* _save_temp_audio_file fails (clip.sem.error is set), failed_at says     *)
(* which of its calls raised.  os.remove is taken to succeed.              *)
(***************************************************************************)
NoPath == 0

TempFileFailures == {"mkstemp", "sf.write"}

mkstemp(files) == Cardinality(files) + 1

\* Returns temp_path (NoPath for None) and the files then present.
_save_temp_audio_file(files, clip, failed_at) ==
    IF clip.sem.error = NoneStr
    THEN [temp_path |-> mkstemp(files), files |-> files \cup {mkstemp(files)}]
    ELSE IF failed_at = "mkstemp"
    THEN [temp_path |-> NoPath, files |-> files]
    ELSE [temp_path |-> NoPath, files |-> files \cup {mkstemp(files)}]

_cleanup_temp_file(files, temp_path) ==
    IF temp_path # NoPath /\ temp_path \in files
    THEN files \ {temp_path}
    ELSE files

\* The files present when check_prompt_alignment returns: the early return
\* touches nothing; otherwise the finally clause cleans up temp_audio_path
\* when it is set.
check_prompt_alignment_temp_files(files, clip, clap_, failed_at) ==
    IF ~clap_ THEN files
    ELSE LET saved == _save_temp_audio_file(files, clip, failed_at)
         IN  IF saved.temp_path # NoPath
             THEN _cleanup_temp_file(saved.files, saved.temp_path)
             ELSE saved.files

(***************************************************************************)
(* Stage aggregator (EnhancedQualityPipeline)                              *)
(***************************************************************************)
\* Variant: a bonus of 0.1 for each stage that passed, and no clipping.
_calculate_total_score_StageBonus(basic_result, musical_result, semantic_result) ==
    LET basic_score == IF basic_result.overall_passed THEN One ELSE Zero
        musical_score == IF musical_result.passed THEN musical_result.avg_score
                         ELSE Zero
        semantic_score == semantic_result.weighted_score
        bonus(passed) == IF passed THEN Rat(1, 10) ELSE Zero
    IN  RatAdd(RatAdd(RatAdd(RatMul(basic_score, Rat(2, 10)),
                             RatMul(musical_score, Rat(3, 10))),
                      RatAdd(RatMul(semantic_score, Rat(4, 10)),
                             bonus(basic_result.overall_passed))),
               RatAdd(bonus(musical_result.passed), bonus(semantic_result.passed)))

\* Variant: the bonus is granted as soon as the basic stage passed.
_calculate_total_score_BonusOnBasic(basic_result, musical_result, semantic_result) ==
    LET basic_score == IF basic_result.overall_passed THEN One ELSE Zero
        musical_score == IF musical_result.passed THEN musical_result.avg_score
                         ELSE Zero
        semantic_score == semantic_result.weighted_score
        bonus_score == IF basic_result.overall_passed THEN Rat(1, 10) ELSE Zero
        total_score == RatAdd(RatAdd(RatMul(basic_score, Rat(2, 10)),
                                     RatMul(musical_score, Rat(3, 10))),
                              RatAdd(RatMul(semantic_score, Rat(4, 10)),
                                     bonus_score))
    IN  RatMax(Zero, RatMin(One, total_score))

_calculate_total_score(basic_result, musical_result, semantic_result) ==
    LET basic_score == IF basic_result.overall_passed THEN One ELSE Zero
        musical_score == IF musical_result.passed THEN musical_result.avg_score
                         ELSE Zero
        semantic_score == semantic_result.weighted_score
        bonus_score == IF /\ basic_result.overall_passed
                          /\ musical_result.passed
                          /\ semantic_result.passed
                       THEN Rat(1, 10) ELSE Zero
        total_score == RatAdd(RatAdd(RatMul(basic_score, Rat(2, 10)),
                                     RatMul(musical_score, Rat(3, 10))),
                              RatAdd(RatMul(semantic_score, Rat(4, 10)),
                                     bonus_score))
    IN  RatMax(Zero, RatMin(One, total_score))

\* Variant: EXCELLENT also requires the musical group to have passed.
_determine_status_MusicalGate(total_score, basic_result, musical_result, semantic_result) ==
    IF ~basic_result.overall_passed THEN "RETRY"
    ELSE IF RatLeq(Rat(7, 10), total_score) /\ musical_result.passed
    THEN "EXCELLENT"
    ELSE IF RatLeq(Rat(5, 10), total_score) THEN "GOOD"
    ELSE "RETRY"

\* Variant: the thresholds are 0.6 and 0.4.
_determine_status_LowThresholds(total_score, basic_result, musical_result, semantic_result) ==
    IF ~basic_result.overall_passed THEN "RETRY"
    ELSE IF RatLeq(Rat(6, 10), total_score) THEN "EXCELLENT"
    ELSE IF RatLeq(Rat(4, 10), total_score) THEN "GOOD"
    ELSE "RETRY"

_determine_status(total_score, basic_result, musical_result, semantic_result) ==
    IF ~basic_result.overall_passed THEN "RETRY"
    ELSE IF RatLeq(Rat(7, 10), total_score) THEN "EXCELLENT"
    ELSE IF RatLeq(Rat(5, 10), total_score) THEN "GOOD"
    ELSE "RETRY"

\* The three return statements of evaluate_single_music.
EvalBasicFailed(basic_result) ==
    [status |-> "RETRY", total_score |-> Zero, stage_completed |-> 1,
     basic_result |-> basic_result, musical_result |-> None,
     semantic_result |-> None, reason |-> "Failed basic quality checks"]

EvalCompleted(basic_result, musical_result, semantic_result) ==
    LET total_score == _calculate_total_score(basic_result, musical_result,
                                              semantic_result)
        status == _determine_status(total_score, basic_result, musical_result,
                                    semantic_result)
    IN  [status |-> status, total_score |-> total_score, stage_completed |-> 3,
         basic_result |-> basic_result, musical_result |-> musical_result,
         semantic_result |-> semantic_result,
         reason |-> "Enhanced evaluation: " \o status \o " (score: "
                    \o Fmt(total_score, 3) \o ")"]

\* Variant: the error return reports the stage as completed.
EvalError_StageKept(e) ==
    [status |-> "RETRY", total_score |-> Zero, stage_completed |-> 3,
     basic_result |-> None, musical_result |-> None,
     semantic_result |-> None, reason |-> "Evaluation error: " \o e]

EvalError(e) ==
    [status |-> "RETRY", total_score |-> Zero, stage_completed |-> 0,
     basic_result |-> None, musical_result |-> None,
     semantic_result |-> None, reason |-> "Evaluation error: " \o e]

\* evaluate_single_music as a function of the clip: raises is the message of
\* an exception raised inside its try block (NoneStr when none is).
evaluate_single_music(clip, clap_, prompt_, raises) ==
    IF raises # NoneStr THEN EvalError(raises)
    ELSE LET basic_result_ == run_all_checks(clip)
         IN  IF ~basic_result_.overall_passed
             THEN EvalBasicFailed(basic_result_)
             ELSE EvalCompleted(basic_result_, run_musical_checks(clip),
                                check_prompt_alignment(clip, clap_, prompt_))

\* The temp files evaluate_single_music leaves: stage 3 is the only one that
\* touches the temp directory.
evaluate_single_music_temp_files(files, clip, clap_, raises, failed_at) ==
    IF raises # NoneStr THEN files
    ELSE IF ~run_all_checks(clip).overall_passed THEN files
    ELSE check_prompt_alignment_temp_files(files, clip, clap_, failed_at)

(***************************************************************************)
(* Inputs of a session                                                     *)
(***************************************************************************)
MaxAttempts == 3

EnhancedAdaptiveMusicPipeline == "EnhancedAdaptiveMusicPipeline"
AdaptiveMusicQualityPipeline == "AdaptiveMusicQualityPipeline"
AdaptiveMusicPipeline == "AdaptiveMusicPipeline"
Controllers ==
    {EnhancedAdaptiveMusicPipeline, AdaptiveMusicQualityPipeline, AdaptiveMusicPipeline}

Prompts == {"a calm jazz piece with upright bass"}
GenErrors == {"CUDA out of memory"}
GenTimes == {Rat(5, 1)}
EvalErrors == {"librosa failure"}

\* Outcomes of one audio writer call: the file is written, the call returns
\* without the file existing, or the call raises.
WriteOutcomes == {"ok", "missing", "raise"}

NoFrames == <<FALSE, FALSE, FALSE, FALSE>>

MusicalGood ==
    [rhythm |-> CheckResult(TRUE, Rat(9, 10), "Rhythm consistency: 0.900"),
     melody |-> CheckResult(TRUE, Rat(8, 10), "Melody existence: 0.800"),
     harmonic |-> CheckResult(TRUE, One, "Harmonic balance: 1.000"),
     flow |-> CheckResult(TRUE, Rat(9, 10), "Musical flow: 0.900")]
MusicalMixed ==
    [rhythm |-> CheckResult(TRUE, Rat(9, 10), "Rhythm consistency: 0.900"),
     melody |-> CheckResult(FALSE, Rat(2, 10), "Melody existence: 0.200"),
     harmonic |-> CheckResult(TRUE, Rat(8, 10), "Harmonic balance: 0.800"),
     flow |-> CheckResult(TRUE, Rat(7, 10), "Musical flow: 0.700")]
MusicalPoor ==
    [rhythm |-> CheckResult(FALSE, Zero, "Too few beats detected (2)"),
     melody |-> CheckResult(FALSE, Zero, "Too few pitch points detected (4)"),
     harmonic |-> CheckResult(TRUE, Rat(3, 10), "Harmonic balance: 0.300"),
     flow |-> CheckResult(FALSE, Rat(2, 10), "Musical flow: 0.200")]

SemScores(x) == [full_prompt |-> x, genre |-> x, emotion |-> x, instrument |-> x]
SemanticHigh == [error |-> NoneStr, sims |-> SemScores(Rat(9, 10))]
SemanticLow == [error |-> NoneStr, sims |-> SemScores(Rat(1, 10))]
SemanticError == [error |-> "temp file save failed", sims |-> SemScores(Zero)]

Clip(n, hf, low, high, musical, sem) ==
    [n |-> n, sr |-> 32000, stft_error |-> NoneStr,
     hf |-> hf, low |-> low, high |-> high, musical |-> musical, sem |-> sem]

\* 12.0 s clips that pass the basic stage, 10.5 s and 10.54 s clips that are
\* too short (both print as 10.5s), and 12.0 s clips with 6.0 s of dominant
\* high-frequency or low-frequency content (4 frames of 3.0 s).
Clips ==
    { Clip(384000, NoFrames, NoFrames, NoFrames, MusicalGood, SemanticHigh),
      Clip(384000, NoFrames, NoFrames, NoFrames, MusicalMixed, SemanticLow),
      Clip(384000, NoFrames, NoFrames, NoFrames, MusicalPoor, SemanticError),
      Clip(336000, NoFrames, NoFrames, NoFrames, MusicalGood, SemanticHigh),
      Clip(337280, NoFrames, <<TRUE, TRUE, FALSE, FALSE>>, NoFrames,
           MusicalGood, SemanticHigh),
      Clip(384000, <<FALSE, TRUE, TRUE, FALSE>>, NoFrames, NoFrames,
           MusicalGood, SemanticHigh) }

(***************************************************************************)
(* MusicGenerator.generate_single: the two dicts it returns.               *)
(***************************************************************************)
GenSuccess(clip, prompt_, generation_time) ==
    [success |-> TRUE, audio_data |-> clip, sample_rate |-> clip.sr,
     duration |-> Rat(clip.n, clip.sr), wav_tensor |-> clip,
     prompt |-> prompt_, generation_time |-> generation_time]

GenFailure(e, prompt_) ==
    [success |-> FALSE, error |-> e, prompt |-> prompt_]

(***************************************************************************)
(* Attempt records appended by process_prompt_adaptive                     *)
(***************************************************************************)
\* Variant: the record of a generation failure drops the generator's error.
GenFailureRecord_NoError(attempt_count_, gen) ==
    [attempt |-> attempt_count_, success |-> FALSE, error |-> "generation failed",
     generation_time |-> Zero]

\* generation failed (all three controllers)
GenFailureRecord(attempt_count_, gen) ==
    [attempt |-> attempt_count_, success |-> FALSE, error |-> gen.error,
     generation_time |-> Zero]

\* _save_attempt_file returned None (enhanced and AdaptiveMusicPipeline); the
\* error text stands for the source's Korean literal ("file save failed").
SaveFailureRecord(attempt_count_, gen) ==
    [attempt |-> attempt_count_, success |-> FALSE, error |-> "file save failed",
     generation_time |-> gen.generation_time]

\* Variant: the record of an evaluated attempt is written without its file.
EnhancedAttemptRecord_NoFile(attempt_count_, gen, enhanced, filename_) ==
    [attempt |-> attempt_count_, success |-> TRUE, status |-> enhanced.status,
     total_score |-> enhanced.total_score, filename |-> NoneStr,
     enhanced_result |-> enhanced, generation_time |-> gen.generation_time]

EnhancedAttemptRecord(attempt_count_, gen, enhanced, filename_) ==
    [attempt |-> attempt_count_, success |-> TRUE, status |-> enhanced.status,
     total_score |-> enhanced.total_score, filename |-> filename_,
     enhanced_result |-> enhanced, generation_time |-> gen.generation_time]

AMQP_AttemptRecord(attempt_count_, gen, quality, filename_) ==
    [attempt |-> attempt_count_, success |-> TRUE,
     passed |-> quality.overall_passed, filename |-> filename_,
     quality |-> quality, generation_time |-> gen.generation_time,
     audio_data |-> gen.audio_data, sample_rate |-> gen.sample_rate,
     wav_tensor |-> gen.wav_tensor]

AMP_AttemptRecord(attempt_count_, gen, quality, filename_) ==
    [attempt |-> attempt_count_, success |-> TRUE,
     passed |-> quality.overall_passed, filename |-> filename_,
     quality |-> quality, generation_time |-> gen.generation_time]

(***************************************************************************)
(* The loop's exit test                                                    *)
(***************************************************************************)
\* Variant: the loop is left after any evaluated attempt that was saved.
EnhancedStop_AnyStatus(enhanced) == enhanced.status \in {"EXCELLENT", "GOOD", "RETRY"}

EnhancedStop(enhanced) == enhanced.status \in {"EXCELLENT", "GOOD"}
QualityStop(quality) == quality.overall_passed

(***************************************************************************)
(* _save_attempt_file.  primary is the outcome of audio_write, fallback    *)
(* the outcome of torchaudio.save.  The result is the returned filename    *)
(* (NoneStr for None), the files created, and the exception that leaves    *)
(* the method (NoneStr when it returns).                                   *)
(***************************************************************************)
Lower(status) ==
    CASE status = "EXCELLENT" -> "excellent"
      [] status = "GOOD" -> "good"
      [] status = "RETRY" -> "retry"

SaveResult(filename_, written, raised) ==
    [filename |-> filename_, written |-> written, raised |-> raised]

\* Variant: every file of the enhanced controller carries the _FINAL suffix.
EnhancedFileStem_AlwaysFinal(enhanced, attempt_count_) ==
    IF enhanced.status \in {"EXCELLENT", "GOOD"}
    THEN "attempt" \o ToString(attempt_count_) \o "_" \o Lower(enhanced.status)
         \o "_score" \o Fmt(enhanced.total_score, 2) \o "_FINAL"
    ELSE "attempt" \o ToString(attempt_count_) \o "_fail_score"
         \o Fmt(enhanced.total_score, 2) \o "_FINAL"

EnhancedFileStem(enhanced, attempt_count_) ==
    IF enhanced.status \in {"EXCELLENT", "GOOD"}
    THEN "attempt" \o ToString(attempt_count_) \o "_" \o Lower(enhanced.status)
         \o "_score" \o Fmt(enhanced.total_score, 2) \o "_FINAL"
    ELSE "attempt" \o ToString(attempt_count_) \o "_fail_score"
         \o Fmt(enhanced.total_score, 2)

QualityFileStem(quality, attempt_count_) ==
    IF quality.overall_passed
    THEN "attempt" \o ToString(attempt_count_) \o "_pass_FINAL"
    ELSE "attempt" \o ToString(attempt_count_) \o "_fail"

\* try audio_write and check the file exists; on any exception fall back to
\* torchaudio.save and check again; None when both fail.
SaveWithFallback(stem, primary, fallback) ==
    IF primary = "ok"
    THEN SaveResult(stem \o ".wav", {stem \o ".wav"}, NoneStr)
    ELSE IF fallback = "ok"
    THEN SaveResult(stem \o ".wav", {stem \o ".wav"}, NoneStr)
    ELSE SaveResult(NoneStr, {}, NoneStr)

Enhanced_save_attempt_file(enhanced, attempt_count_, primary, fallback) ==
    SaveWithFallback(EnhancedFileStem(enhanced, attempt_count_), primary, fallback)

AMP_save_attempt_file(quality, attempt_count_, primary, fallback) ==
    SaveWithFallback(QualityFileStem(quality, attempt_count_), primary, fallback)

\* No try around audio_write: its exception leaves the method.
AMQP_save_attempt_file(quality, attempt_count_, primary) ==
    LET stem == QualityFileStem(quality, attempt_count_)
    IN  IF primary = "raise"
        THEN SaveResult(NoneStr, {}, "audio_write failed")
        ELSE SaveResult(stem \o ".wav", {stem \o ".wav"}, NoneStr)

(***************************************************************************)
(* Reports and summaries built from the attempt log at loop exit           *)
(***************************************************************************)
Last(seq) == seq[Len(seq)]

\* dict.get(key, default)
Get(d, key, default) == IF key \in DOMAIN d THEN d[key] ELSE default

\* failure_reasons[reason] = failure_reasons.get(reason, 0) + 1
CountReason(failure_reasons_, reason) ==
    [r \in DOMAIN failure_reasons_ \cup {reason} |->
        IF r = reason THEN Get(failure_reasons_, reason, 0) + 1
        ELSE failure_reasons_[r]]

\* quality.items() without 'overall_passed', in insertion order
CheckNames == <<"duration", "high_frequency", "extreme_frequencies">>

\* for check_name, check_result in attempt['quality'].items(): ...
RECURSIVE CountFailedChecks(_, _, _)
CountFailedChecks(failure_reasons_, quality, names) ==
    IF names = << >> THEN failure_reasons_
    ELSE LET check_result == quality[Head(names)]
         IN  CountFailedChecks(
                 IF ~check_result.passed
                 THEN CountReason(failure_reasons_, check_result.reason)
                 ELSE failure_reasons_,
                 quality, Tail(names))

SelectSuccessful(log) == SelectSeq(log, LAMBDA a : a.success)

RECURSIVE SumGenerationTime(_)
SumGenerationTime(log) ==
    IF log = << >> THEN Zero
    ELSE RatAdd(Get(Head(log), "generation_time", Zero), SumGenerationTime(Tail(log)))

\* AdaptiveMusicQualityPipeline._generate_adaptive_summary: the loop over
\* successful_attempts that fills failure_reasons
RECURSIVE AMQP_failure_reasons(_, _)
AMQP_failure_reasons(failure_reasons_, log) ==
    IF log = << >> THEN failure_reasons_
    ELSE LET attempt == Head(log)
         IN  AMQP_failure_reasons(
                 IF ~Get(attempt, "passed", FALSE) /\ Get(attempt, "quality", None) # None
                 THEN CountFailedChecks(failure_reasons_, attempt.quality, CheckNames)
                 ELSE failure_reasons_,
                 Tail(log))

_generate_adaptive_summary(log) ==
    LET successful_attempts == SelectSuccessful(log)
    IN  [total_attempts |-> Len(log),
         successful_generations |-> Len(successful_attempts),
         success_attempt_number |-> Len(log),
         avg_generation_time |->
             IF successful_attempts # << >>
             THEN RatDiv(SumGenerationTime(successful_attempts),
                         Rat(Len(successful_attempts), 1))
             ELSE Zero,
         failure_reasons |-> AMQP_failure_reasons(<< >>, successful_attempts),
         final_filename |-> IF log # << >> THEN Last(log).filename ELSE NoneStr]

\* The per-attempt lines of the three reports.
ReportLine(attempt, passing) ==
    IF ~attempt.success
    THEN [attempt |-> attempt.attempt, line |-> "generation failed", detail |-> attempt.error]
    ELSE [attempt |-> attempt.attempt,
          line |-> IF passing THEN "success" ELSE "failure",
          detail |-> Fmt(attempt.generation_time, 1)]

\* AdaptiveMusicQualityPipeline._print_adaptive_report
AMQP_print_adaptive_report(pipeline_result) ==
    [raised |-> NoneStr,
     final_filename |-> pipeline_result.summary.final_filename,
     lines |-> [i \in 1..Len(pipeline_result.attempts) |->
                  ReportLine(pipeline_result.attempts[i],
                             Get(pipeline_result.attempts[i], "passed", FALSE))],
     failure_reasons |-> pipeline_result.summary.failure_reasons]

\* AdaptiveMusicPipeline._print_adaptive_report reads attempt['passed'] of
\* every record in its failure statistics loop; a record without the key
\* raises KeyError.
RECURSIVE AMP_failure_reasons(_, _)
AMP_failure_reasons(failure_reasons_, log) ==
    IF log = << >> THEN failure_reasons_
    ELSE LET attempt == Head(log)
         IN  AMP_failure_reasons(
                 IF ~attempt.passed /\ attempt.success
                    /\ Get(attempt, "quality", None) # None
                 THEN CountFailedChecks(failure_reasons_, attempt.quality, CheckNames)
                 ELSE failure_reasons_,
                 Tail(log))

AMP_print_adaptive_report(log) ==
    IF log # << >> /\ "filename" \notin DOMAIN Last(log)
    THEN [raised |-> "KeyError: 'filename'"]
    ELSE IF \E i \in 1..Len(log) : "passed" \notin DOMAIN log[i]
    THEN [raised |-> "KeyError: 'passed'"]
    ELSE [raised |-> NoneStr,
          final_filename |-> IF log # << >> THEN Last(log).filename ELSE NoneStr,
          lines |-> [i \in 1..Len(log) |-> ReportLine(log[i], log[i].passed)],
          failure_reasons |-> AMP_failure_reasons(<< >>, log)]

\* EnhancedAdaptiveMusicPipeline._print_enhanced_report
RECURSIVE CountStatus(_, _)
CountStatus(status_counts, log) ==
    IF log = << >> THEN status_counts
    ELSE CountStatus(CountReason(status_counts, Head(log).status), Tail(log))

RECURSIVE SumTotalScore(_)
SumTotalScore(log) ==
    IF log = << >> THEN Zero
    ELSE RatAdd(Head(log).total_score, SumTotalScore(Tail(log)))

_print_enhanced_report(log) ==
    IF log # << >> /\ {"status", "total_score", "filename"} \ DOMAIN Last(log) # {}
    THEN [raised |-> "KeyError: 'status'"]
    ELSE LET valid_attempts == SelectSuccessful(log)
             status_counts == CountStatus(<< >>, valid_attempts)
         IN  [raised |-> NoneStr,
              final_status |-> IF log # << >> THEN Last(log).status ELSE NoneStr,
              final_filename |-> IF log # << >> THEN Last(log).filename ELSE NoneStr,
              lines |-> [i \in 1..Len(log) |->
                           ReportLine(log[i], Get(log[i], "status", "RETRY") # "RETRY")],
              status_counts |-> status_counts,
              avg_score |-> IF valid_attempts # << >>
                            THEN RatDiv(SumTotalScore(valid_attempts),
                                        Rat(Len(valid_attempts), 1))
                            ELSE Zero]

(***************************************************************************)
(* One session: a call of process_prompt_adaptive(prompt)                  *)
(***************************************************************************)
VARIABLES
    controller,       \* the class whose process_prompt_adaptive runs
    clap,             \* SemanticMatchingFilters.clap is not None
    prompt,
    pc,               \* position in process_prompt_adaptive
    attempt_count,
    attempts,         \* the attempt log
    gen_result,
    filter_calls,     \* filter groups called by the running evaluate_single_music
    eval_error,       \* the exception caught by evaluate_single_music, if any
    basic_result, musical_result, semantic_result,
    enhanced_result,  \* return value of evaluate_single_music
    quality_result,   \* return value of _run_quality_checks_with_log
    filename,
    saved_files,      \* files present in the output directory
    temp_files,       \* clap_eval_*.wav files present in the temp directory
    report,           \* what the final report printed, None before
    result,           \* the returned dict, None before
    exception,        \* the exception that left process_prompt_adaptive
    input,            \* a direct call of one filter or aggregator function
    output            \* what that call returned, None before

vars == <<controller, clap, prompt, pc, attempt_count, attempts, gen_result,
          filter_calls, eval_error, basic_result, musical_result, semantic_result,
          enhanced_result, quality_result, filename, saved_files, temp_files,
          report, result, exception, input, output>>

session == <<controller, clap, prompt, input, output>>
eval_locals == <<filter_calls, eval_error, basic_result, musical_result,
                 semantic_result>>
outcome == <<report, result, exception>>

EvalStages == {"eval_basic", "eval_musical", "eval_semantic"}
InLoop == {"loop", "generating", "evaluating", "persisting"} \cup EvalStages
Running == InLoop \cup {"reporting"}

Init ==
    /\ controller \in Controllers
    /\ clap \in (IF controller = EnhancedAdaptiveMusicPipeline THEN BOOLEAN ELSE {FALSE})
    /\ prompt \in Prompts
    /\ pc = "loop"
    /\ attempt_count = 0
    /\ attempts = << >>
    /\ gen_result = None
    /\ filter_calls = << >>
    /\ eval_error = NoneStr
    /\ basic_result = None
    /\ musical_result = None
    /\ semantic_result = None
    /\ enhanced_result = None
    /\ quality_result = None
    /\ filename = NoneStr
    /\ saved_files = {}
    /\ temp_files = {}
    /\ report = None
    /\ result = None
    /\ exception = NoneStr
    /\ input = None
    /\ output = None

\* Variant: the counter is set from the iteration about to start plus one.
StartAttempt_SkipsOne ==
    /\ pc = "loop"
    /\ attempt_count < MaxAttempts
    /\ attempt_count' = attempt_count + 2
    /\ pc' = "generating"
    /\ UNCHANGED <<session, attempts, gen_result, eval_locals, enhanced_result,
                   quality_result, filename, saved_files, outcome>>
    /\ UNCHANGED temp_files

\* while True: attempt_count += 1
StartAttempt ==
    /\ pc = "loop"
    /\ attempt_count < MaxAttempts
    /\ attempt_count' = attempt_count + 1
    /\ pc' = "generating"
    /\ UNCHANGED <<session, attempts, gen_result, eval_locals, enhanced_result,
                   quality_result, filename, saved_files, outcome>>
    /\ UNCHANGED temp_files

\* gen_result = self.generator.generate_single(prompt), success
GenerateSucceeds ==
    /\ pc = "generating"
    /\ \E clip \in Clips, generation_time \in GenTimes :
           gen_result' = GenSuccess(clip, prompt, generation_time)
    /\ pc' = IF controller = EnhancedAdaptiveMusicPipeline
             THEN "eval_basic" ELSE "evaluating"
    /\ filter_calls' = << >>
    /\ eval_error' = NoneStr
    /\ UNCHANGED <<session, attempt_count, attempts, basic_result, musical_result,
                   semantic_result, enhanced_result, quality_result, filename,
                   saved_files, outcome>>
    /\ UNCHANGED temp_files

\* generate_single failed: record the attempt and continue
GenerateFails ==
    /\ pc = "generating"
    /\ \E e \in GenErrors : gen_result' = GenFailure(e, prompt)
    /\ attempts' = Append(attempts, GenFailureRecord(attempt_count, gen_result'))
    /\ pc' = "loop"
    /\ UNCHANGED <<session, attempt_count, eval_locals, enhanced_result,
                   quality_result, filename, saved_files, outcome>>
    /\ UNCHANGED temp_files

\* Variant: stage 1 without the early return.
EvalBasic_NoEarlyReturn ==
    /\ pc = "eval_basic"
    /\ filter_calls' = Append(filter_calls, "basic")
    /\ basic_result' = run_all_checks(gen_result.audio_data)
    /\ pc' = "eval_musical"
    /\ UNCHANGED <<session, attempt_count, attempts, gen_result, eval_error,
                   musical_result, semantic_result, enhanced_result,
                   quality_result, filename, saved_files, outcome>>
    /\ UNCHANGED temp_files

\* evaluate_single_music, stage 1
EvalBasic ==
    /\ pc = "eval_basic"
    /\ filter_calls' = Append(filter_calls, "basic")
    /\ basic_result' = run_all_checks(gen_result.audio_data)
    /\ IF ~basic_result'.overall_passed
       THEN /\ enhanced_result' = EvalBasicFailed(basic_result')
            /\ pc' = "persisting"
       ELSE /\ pc' = "eval_musical"
            /\ UNCHANGED enhanced_result
    /\ UNCHANGED <<session, attempt_count, attempts, gen_result, eval_error,
                   musical_result, semantic_result, quality_result, filename,
                   saved_files, outcome>>
    /\ UNCHANGED temp_files

\* evaluate_single_music, stage 2
EvalMusical ==
    /\ pc = "eval_musical"
    /\ filter_calls' = Append(filter_calls, "musical")
    /\ musical_result' = run_musical_checks(gen_result.audio_data)
    /\ pc' = "eval_semantic"
    /\ UNCHANGED <<session, attempt_count, attempts, gen_result, eval_error,
                   basic_result, semantic_result, enhanced_result, quality_result,
                   filename, saved_files, outcome>>
    /\ UNCHANGED temp_files

\* evaluate_single_music, stage 3, scoring and the final return
EvalSemantic ==
    /\ pc = "eval_semantic"
    /\ filter_calls' = Append(filter_calls, "semantic")
    /\ semantic_result' = check_prompt_alignment(gen_result.audio_data, clap, prompt)
    /\ enhanced_result' = EvalCompleted(basic_result, musical_result, semantic_result')
    /\ \E failed_at \in TempFileFailures :
           temp_files' = check_prompt_alignment_temp_files(
                             temp_files, gen_result.audio_data, clap, failed_at)
    /\ pc' = "persisting"
    /\ UNCHANGED <<session, attempt_count, attempts, gen_result, eval_error,
                   basic_result, musical_result, quality_result, filename,
                   saved_files, outcome>>

\* an exception inside the try block of evaluate_single_music, at any stage
EvalRaises ==
    /\ pc \in EvalStages
    /\ \E e \in EvalErrors : /\ eval_error' = e
                             /\ enhanced_result' = EvalError(e)
    /\ filter_calls' =
           Append(filter_calls,
                  CASE pc = "eval_basic" -> "basic"
                    [] pc = "eval_musical" -> "musical"
                    [] pc = "eval_semantic" -> "semantic")
    /\ pc' = "persisting"
    /\ UNCHANGED <<session, attempt_count, attempts, gen_result, basic_result,
                   musical_result, semantic_result, quality_result, filename,
                   saved_files, outcome>>
    /\ UNCHANGED temp_files

\* quality_result = self._run_quality_checks_with_log(...)
RunQualityChecks ==
    /\ pc = "evaluating"
    /\ quality_result' =
           IF controller = AdaptiveMusicQualityPipeline
           THEN AMQP_run_quality_checks_with_log(gen_result.audio_data)
           ELSE AMP_run_quality_checks_with_log(gen_result.audio_data)
    /\ pc' = "persisting"
    /\ UNCHANGED <<session, attempt_count, attempts, gen_result, eval_locals,
                   enhanced_result, filename, saved_files, outcome>>
    /\ UNCHANGED temp_files

\* Variant: an attempt whose file could not be saved leaves no record.
RecordAndDecide_DropsSaveFailure(save, failure_record, attempt_record, stop) ==
    /\ filename' = save.filename
    /\ saved_files' = saved_files \cup save.written
    /\ IF save.filename = NoneStr
       THEN /\ attempts' = attempts
            /\ pc' = "loop"
       ELSE /\ attempts' = Append(attempts, attempt_record)
            /\ pc' = IF stop THEN "reporting" ELSE "loop"
    /\ UNCHANGED exception

\* The tail of one iteration once _save_attempt_file has returned filename_:
\* record the attempt and either leave the loop or go round again.
RecordAndDecide(save, failure_record, attempt_record, stop) ==
    /\ filename' = save.filename
    /\ saved_files' = saved_files \cup save.written
    /\ IF save.filename = NoneStr
       THEN /\ attempts' = Append(attempts, failure_record)
            /\ pc' = "loop"
       ELSE /\ attempts' = Append(attempts, attempt_record)
            /\ pc' = IF stop THEN "reporting" ELSE "loop"
    /\ UNCHANGED exception

\* EnhancedAdaptiveMusicPipeline: steps 3 to 5 of the loop body
EnhancedPersist ==
    /\ pc = "persisting"
    /\ controller = EnhancedAdaptiveMusicPipeline
    /\ \E primary \in WriteOutcomes, fallback \in WriteOutcomes :
         LET save == Enhanced_save_attempt_file(enhanced_result, attempt_count,
                                                primary, fallback)
         IN  RecordAndDecide(save,
                 SaveFailureRecord(attempt_count, gen_result),
                 EnhancedAttemptRecord(attempt_count, gen_result, enhanced_result,
                                       save.filename),
                 EnhancedStop(enhanced_result))
    /\ UNCHANGED <<session, attempt_count, gen_result, eval_locals,
                   enhanced_result, quality_result, report, result>>
    /\ UNCHANGED temp_files

\* AdaptiveMusicPipeline: steps 3 to 5 of the loop body
AMP_Persist ==
    /\ pc = "persisting"
    /\ controller = AdaptiveMusicPipeline
    /\ \E primary \in WriteOutcomes, fallback \in WriteOutcomes :
         LET save == AMP_save_attempt_file(quality_result, attempt_count,
                                           primary, fallback)
         IN  RecordAndDecide(save,
                 SaveFailureRecord(attempt_count, gen_result),
                 AMP_AttemptRecord(attempt_count, gen_result, quality_result,
                                   save.filename),
                 QualityStop(quality_result))
    /\ UNCHANGED <<session, attempt_count, gen_result, eval_locals,
                   enhanced_result, quality_result, report, result>>
    /\ UNCHANGED temp_files

\* AdaptiveMusicQualityPipeline: steps 3 to 5 of the loop body; there is no
\* test of filename and no handler around _save_attempt_file
AMQP_Persist ==
    /\ pc = "persisting"
    /\ controller = AdaptiveMusicQualityPipeline
    /\ \E primary \in {"ok", "raise"} :
         LET save == AMQP_save_attempt_file(quality_result, attempt_count, primary)
         IN  IF save.raised # NoneStr
             THEN /\ exception' = save.raised
                  /\ pc' = "raised"
                  /\ UNCHANGED <<attempts, filename, saved_files>>
             ELSE /\ filename' = save.filename
                  /\ saved_files' = saved_files \cup save.written
                  /\ attempts' = Append(attempts,
                         AMQP_AttemptRecord(attempt_count, gen_result,
                                            quality_result, save.filename))
                  /\ pc' = IF QualityStop(quality_result) THEN "reporting" ELSE "loop"
                  /\ UNCHANGED exception
    /\ UNCHANGED <<session, attempt_count, gen_result, eval_locals,
                   enhanced_result, quality_result, report, result>>
    /\ UNCHANGED temp_files

\* After the loop: report, then return; an exception of the report leaves
\* process_prompt_adaptive.
Finish(rep, res) ==
    IF rep.raised # NoneStr
    THEN /\ exception' = rep.raised
         /\ pc' = "raised"
         /\ UNCHANGED <<report, result>>
    ELSE /\ report' = rep
         /\ result' = res
         /\ pc' = "returned"
         /\ UNCHANGED exception

EnhancedReport ==
    /\ pc = "reporting"
    /\ controller = EnhancedAdaptiveMusicPipeline
    /\ Finish(_print_enhanced_report(attempts),
              [prompt |-> prompt, attempts |-> attempts,
               success_attempt_number |-> attempt_count,
               final_status |-> enhanced_result.status,
               final_score |-> enhanced_result.total_score])
    /\ UNCHANGED <<session, attempt_count, attempts, gen_result, eval_locals,
                   enhanced_result, quality_result, filename, saved_files>>
    /\ UNCHANGED temp_files

AMP_Report ==
    /\ pc = "reporting"
    /\ controller = AdaptiveMusicPipeline
    /\ Finish(AMP_print_adaptive_report(attempts),
              [prompt |-> prompt, attempts |-> attempts,
               success_attempt_number |-> attempt_count])
    /\ UNCHANGED <<session, attempt_count, attempts, gen_result, eval_locals,
                   enhanced_result, quality_result, filename, saved_files>>
    /\ UNCHANGED temp_files

AMQP_Report ==
    /\ pc = "reporting"
    /\ controller = AdaptiveMusicQualityPipeline
    /\ LET pipeline_result ==
               [prompt |-> prompt, attempts |-> attempts,
                final_result |-> Last(attempts),
                summary |-> _generate_adaptive_summary(attempts)]
       IN  Finish(AMQP_print_adaptive_report(pipeline_result), pipeline_result)
    /\ UNCHANGED <<session, attempt_count, attempts, gen_result, eval_locals,
                   enhanced_result, quality_result, filename, saved_files>>
    /\ UNCHANGED temp_files

\* Variant: the abort is noticed at the loop top only and the history so far is
\* reported before the method is left.
KeyboardInterrupt_Finalizes ==
    /\ pc = "loop"
    /\ pc' = "interrupted"
    /\ report' = [raised |-> NoneStr, lines |-> attempts]
    /\ UNCHANGED <<session, attempt_count, attempts, gen_result, eval_locals,
                   enhanced_result, quality_result, filename, saved_files,
                   result, exception>>
    /\ UNCHANGED temp_files

\* A user abort while process_prompt_adaptive runs.  Nothing in the method
\* or in the code it calls catches KeyboardInterrupt (the handlers catch
\* Exception); it lands in main's `except KeyboardInterrupt`.
KeyboardInterrupt ==
    /\ pc \in Running
    /\ pc' = "interrupted"
    /\ UNCHANGED <<session, attempt_count, attempts, gen_result, eval_locals,
                   enhanced_result, quality_result, filename, saved_files, outcome>>
    /\ UNCHANGED temp_files

Next ==
    \/ StartAttempt
    \/ GenerateSucceeds
    \/ GenerateFails
    \/ EvalBasic
    \/ EvalMusical
    \/ EvalSemantic
    \/ EvalRaises
    \/ RunQualityChecks
    \/ EnhancedPersist
    \/ AMP_Persist
    \/ AMQP_Persist
    \/ EnhancedReport
    \/ AMP_Report
    \/ AMQP_Report
    \/ KeyboardInterrupt

Spec == Init /\ [][Next]_vars

TypeOK ==
    /\ pc \in Running \cup {"returned", "raised", "interrupted"}
    /\ attempt_count \in 0..MaxAttempts
    /\ Len(attempts) <= attempt_count

(***************************************************************************)
(* Direct calls of the filters and of the aggregator's scoring functions.  *)
(* They are stateless: a behaviour draws one call with its arguments and   *)
(* applies the function.                                                   *)
(***************************************************************************)
\* check_duration(audio_data, sample_rate, expected_duration, tolerance)
DurationInputs ==
    [fn : {"check_duration"},
     clip : [n : {0, 320000, 351999, 352000, 352001, 384000}, sr : {16000, 32000}],
     expected_duration : {Rat(10, 1), Rat(11, 1), Rat(12, 1)},
     tolerance : {Zero, Rat(1, 2), One}]

\* Clips for the basic stage: 10.5 s, 11.0 s and 12.0 s, each band with no
\* dominant frame, a dominant run of 6.0 s, or two runs that are not longer
\* than 3.0 s; and a clip whose spectral transform raises.
FrameChoices == {NoFrames, <<TRUE, TRUE, FALSE, FALSE>>, <<TRUE, FALSE, TRUE, FALSE>>}

BasicClips ==
    {Clip(n, hf, low, high, MusicalGood, SemanticHigh) :
        n \in {336000, 352000, 384000},
        hf \in FrameChoices, low \in FrameChoices, high \in FrameChoices}
    \cup {[Clip(384000, NoFrames, NoFrames, NoFrames, MusicalGood, SemanticHigh)
              EXCEPT !.stft_error = "nperseg"]}

BasicInputs ==
    [fn : {"run_all_checks", "AMQP._run_quality_checks_with_log",
           "AMP._run_quality_checks_with_log"},
     clip : BasicClips]

\* check_high_frequency_noise(audio_data, sample_rate, freq_threshold,
\* duration_threshold): 12.0 s and 10.0 s clips with every sequence of up to
\* MaxFrames dominant or non-dominant frames; a clip sampled at 8 kHz, which
\* has no bin at or above the threshold and so no dominant frame; a clip
\* whose transform raises.
MaxFrames == 5

FrameSequences == UNION {[1..k -> BOOLEAN] : k \in 1..MaxFrames}

HighFrequencyInputs ==
    {[fn |-> "check_high_frequency_noise",
      clip |-> Clip(n, hf, NoFrames, NoFrames, MusicalGood, SemanticHigh),
      freq_threshold |-> freq_threshold_default,
      duration_threshold |-> d] :
        n \in {320000, 384000}, hf \in FrameSequences,
        d \in {Rat(2, 1), Rat(3, 1), Rat(4, 1)}}
    \cup {[fn |-> "check_high_frequency_noise",
           clip |-> c,
           freq_threshold |-> freq_threshold_default,
           duration_threshold |-> duration_threshold_default] :
        c \in {[Clip(96000, NoFrames, NoFrames, NoFrames, MusicalGood,
                     SemanticHigh) EXCEPT !.sr = 8000],
               [Clip(384000, NoFrames, NoFrames, NoFrames, MusicalGood,
                     SemanticHigh) EXCEPT !.stft_error = "nperseg"]}}

\* check_extreme_frequencies(audio_data, sample_rate, low_freq_threshold,
\* high_freq_threshold, duration_threshold): 12.0 s clips with every pair of
\* low-band and high-band frame sequences of one length, and a clip whose
\* transform raises.
ExtremeFrequencyInputs ==
    UNION {{[fn |-> "check_extreme_frequencies",
             clip |-> Clip(384000, NoFrames, low, high, MusicalGood, SemanticHigh),
             low_freq_threshold |-> low_freq_threshold_default,
             high_freq_threshold |-> high_freq_threshold_default,
             duration_threshold |-> d] :
               low \in [1..k -> BOOLEAN], high \in [1..k -> BOOLEAN],
               d \in {Rat(2, 1), Rat(3, 1)}} : k \in 1..MaxFrames}
    \cup {[fn |-> "check_extreme_frequencies",
           clip |-> [Clip(384000, NoFrames, NoFrames, NoFrames, MusicalGood,
                          SemanticHigh) EXCEPT !.stft_error = "nperseg"],
           low_freq_threshold |-> low_freq_threshold_default,
           high_freq_threshold |-> high_freq_threshold_default,
           duration_threshold |-> duration_threshold_default]}

\* parse_prompt_components(prompt)
ParsePrompts ==
    {"a calm jazz piece with upright bass", "lofi beats",
     "An acoustic guitar ballad", "double bass solo", "A sad piano piece",
     "happy violin and electric guitar music",
     "electric guitar over upright bass",
     "A rock in a sad and happy mood with drums and guitars",
     "bassoon and flute", "serene harp"}

ParseInputs == [fn : {"parse_prompt_components"}, prompt : ParsePrompts]

\* check_volume_cutoff(audio_data, sample_rate, cutoff_threshold): every
\* clip of up to MaxSamples samples of silence (0), soft (1) or loud (7)
\* sound, at 20 Hz (windows of two samples, one sample apart), the end taken
\* as the last 2 or 4 windows; and clips at 10 Hz, where the hop is 0.
MaxSamples == 7

SampleValues == {0, 1, 7}

VolumeInputs ==
    [fn : {"check_volume_cutoff"},
     audio_data : UNION {[1..k -> SampleValues] : k \in 1..MaxSamples},
     sample_rate : {20},
     cutoff_threshold : {Rat(1, 10), Rat(2, 10)}]
    \cup [fn : {"check_volume_cutoff"},
          audio_data : {<<7, 7, 7, 7, 7, 7>>}, sample_rate : {10},
          cutoff_threshold : {Rat(1, 10)}]

\* What the four musical checks can return: rhythm passes above 0.6 and
\* passes with 0.7 on an internal error, melody passes above 0.3, harmonic
\* balance scores 1.0, 0.8 or 0.3 and fails with 0.0 when a component is
\* absent, flow passes above 0.3.
RhythmResults ==
    {CheckResult(TRUE, Rat(9, 10), "Rhythm consistency: 0.900"),
     CheckResult(FALSE, Rat(4, 10), "Rhythm consistency: 0.400"),
     CheckResult(FALSE, Zero, "Too few beats detected (2)"),
     CheckResult(TRUE, Rat(7, 10), "Rhythm check error (default pass): librosa")}
MelodyResults ==
    {CheckResult(TRUE, Rat(8, 10), "Melody existence: 0.800"),
     CheckResult(FALSE, Rat(2, 10), "Melody existence: 0.200"),
     CheckResult(FALSE, Zero, "Too few pitch points detected (4)")}
HarmonicResults ==
    {CheckResult(TRUE, One, "Harmonic balance: 1.000"),
     CheckResult(TRUE, Rat(8, 10), "Harmonic balance: 0.800"),
     CheckResult(FALSE, Rat(3, 10), "Harmonic balance: 0.300"),
     CheckResult(FALSE, Zero, "No audio energy detected")}
FlowResults ==
    {CheckResult(TRUE, Rat(7, 10), "Musical flow: 0.700"),
     CheckResult(FALSE, Rat(2, 10), "Musical flow: 0.200")}

MusicalOutcomes ==
    [rhythm : RhythmResults, melody : MelodyResults,
     harmonic : HarmonicResults, flow : FlowResults]

\* The analysis of each check returns or raises.
MusicalErrorOutcomes ==
    [rhythm : {MusicalGood.rhythm, [raised |-> "librosa failure"]},
     melody : {MusicalMixed.melody, [raised |-> "librosa failure"]},
     harmonic : {MusicalGood.harmonic, [raised |-> "librosa failure"]},
     flow : {MusicalGood.flow, [raised |-> "librosa failure"]}]

MusicalInputs ==
    {[fn |-> "run_musical_checks",
      clip |-> Clip(384000, NoFrames, NoFrames, NoFrames, m, SemanticHigh)] :
        m \in MusicalOutcomes \cup MusicalErrorOutcomes}

\* What the similarity oracle does for one text: a cosine similarity
\* (possibly negative) or an exception.
SimilarityOutcomes == {Rat(9, 10), Rat(1, 10), Rat(-1, 5), SimilarityFailure}

SemanticOutcomes ==
    [error : {NoneStr},
     sims : [full_prompt : SimilarityOutcomes, genre : SimilarityOutcomes,
             emotion : SimilarityOutcomes, instrument : SimilarityOutcomes]]
    \cup {SemanticError}

FilterPrompts == Prompts \cup {"lofi beats"}

SemanticInputs ==
    {[fn |-> "check_prompt_alignment",
      clip |-> Clip(384000, NoFrames, NoFrames, NoFrames, MusicalGood, sem),
      clap |-> c, prompt |-> p] :
        sem \in SemanticOutcomes, c \in BOOLEAN, p \in FilterPrompts}

\* Stage results handed to the scoring functions: those the three stages
\* return for the clips above.
BasicResults ==
    {run_all_checks(c) :
        c \in {Clip(n, NoFrames, NoFrames, NoFrames, MusicalGood, SemanticHigh) :
                  n \in {336000, 384000}}}

MusicalResults == {run_musical_checks(i.clip) : i \in MusicalInputs}

SemanticResults ==
    {check_prompt_alignment(
         Clip(384000, NoFrames, NoFrames, NoFrames, MusicalGood, sem), c,
         "a calm jazz piece with upright bass") :
        sem \in {SemanticHigh, SemanticLow, SemanticError,
                 [error |-> NoneStr, sims |-> SemScores(One)],
                 [error |-> NoneStr, sims |-> SemScores(SimilarityFailure)]},
        c \in BOOLEAN}

ScoreInputs ==
    [fn : {"_calculate_total_score"},
     basic_result : BasicResults,
     musical_result : MusicalResults,
     semantic_result : SemanticResults]

StatusInputs ==
    [fn : {"_determine_status"},
     total_score : {Zero, Rat(49, 100), Rat(1, 2), Rat(64, 100), Rat(65, 100),
                    Rat(69, 100), Rat(7, 10), Rat(79, 100), Rat(8, 10), One},
     basic_result : BasicResults,
     musical_result :
         {run_musical_checks(Clip(384000, NoFrames, NoFrames, NoFrames, m,
                                  SemanticHigh)) : m \in {MusicalGood, MusicalPoor}},
     semantic_result : SemanticResults]

\* evaluate_single_music(audio_data, sample_rate, prompt): the musical
\* outcomes above, and three more: every check at 1.0, and two passing groups
\* whose average is 1/3 and just below it.
EvaluateInputs ==
    {[fn |-> "evaluate_single_music",
      clip |-> Clip(n, NoFrames, NoFrames, NoFrames, m, sem),
      clap |-> c, prompt |-> "a calm jazz piece with upright bass",
      raises |-> e] :
        n \in {336000, 384000},
        m \in MusicalOutcomes \cup
              {[rhythm |-> CheckResult(TRUE, One, "Rhythm consistency: 1.000"),
                melody |-> CheckResult(TRUE, One, "Melody existence: 1.000"),
                harmonic |-> CheckResult(TRUE, One, "Harmonic balance: 1.000"),
                flow |-> CheckResult(TRUE, One, "Musical flow: 1.000")]}
              \cup
              {[rhythm |-> CheckResult(TRUE, Rat(7, 10), "Rhythm consistency: 0.700"),
                melody |-> CheckResult(FALSE, Rat(2, 10), "Melody existence: 0.200"),
                harmonic |-> CheckResult(FALSE, h, "Harmonic balance: " \o Fmt(h, 3)),
                flow |-> CheckResult(TRUE, Rat(35, 100), "Musical flow: 0.350")] :
                   h \in {Rat(1, 12), Rat(8, 100)}},
        sem \in {SemanticHigh, SemanticLow, SemanticError,
                 [error |-> NoneStr, sims |-> SemScores(One)],
                 [error |-> NoneStr, sims |-> SemScores(SimilarityFailure)]},
        c \in BOOLEAN, e \in {NoneStr} \cup EvalErrors}

FilterInit ==
    /\ controller = EnhancedAdaptiveMusicPipeline
    /\ clap = FALSE
    /\ prompt \in Prompts
    /\ pc = "call"
    /\ attempt_count = 0
    /\ attempts = << >>
    /\ gen_result = None
    /\ filter_calls = << >>
    /\ eval_error = NoneStr
    /\ basic_result = None
    /\ musical_result = None
    /\ semantic_result = None
    /\ enhanced_result = None
    /\ quality_result = None
    /\ filename = NoneStr
    /\ saved_files = {}
    /\ temp_files = {}
    /\ report = None
    /\ result = None
    /\ exception = NoneStr
    /\ input \in DurationInputs \cup BasicInputs \cup MusicalInputs
                 \cup SemanticInputs \cup ScoreInputs \cup StatusInputs
                 \cup EvaluateInputs \cup HighFrequencyInputs
                 \cup ExtremeFrequencyInputs \cup ParseInputs \cup VolumeInputs
    /\ output = None

\* The call returns: pc and output change, and the temp directory holds
\* files.
ReturnWith(fn, value, files) ==
    /\ pc = "call"
    /\ input.fn = fn
    /\ output' = value
    /\ temp_files' = files
    /\ pc' = "ret"
    /\ UNCHANGED <<controller, clap, prompt, input, attempt_count, attempts,
                   gen_result, eval_locals, enhanced_result, quality_result,
                   filename, saved_files, outcome>>

Return(fn, value) == ReturnWith(fn, value, temp_files)

Call_check_duration ==
    Return("check_duration",
           check_duration(input.clip, input.expected_duration, input.tolerance))

Call_check_volume_cutoff ==
    Return("check_volume_cutoff",
           check_volume_cutoff(input.audio_data, input.sample_rate,
                               input.cutoff_threshold))

Call_check_high_frequency_noise ==
    Return("check_high_frequency_noise",
           check_high_frequency_noise(input.clip, input.freq_threshold,
                                      input.duration_threshold))

Call_check_extreme_frequencies ==
    Return("check_extreme_frequencies",
           check_extreme_frequencies(input.clip, input.low_freq_threshold,
                                     input.high_freq_threshold,
                                     input.duration_threshold))

Call_parse_prompt_components ==
    Return("parse_prompt_components", parse_prompt_components(input.prompt))

Call_run_all_checks ==
    Return("run_all_checks", run_all_checks(input.clip))

Call_AMQP_run_quality_checks_with_log ==
    Return("AMQP._run_quality_checks_with_log",
           AMQP_run_quality_checks_with_log(input.clip))

Call_AMP_run_quality_checks_with_log ==
    Return("AMP._run_quality_checks_with_log",
           AMP_run_quality_checks_with_log(input.clip))

Call_run_musical_checks ==
    Return("run_musical_checks", run_musical_checks(input.clip))

Call_check_prompt_alignment ==
    \E failed_at \in TempFileFailures :
        ReturnWith("check_prompt_alignment",
                   check_prompt_alignment(input.clip, input.clap, input.prompt),
                   check_prompt_alignment_temp_files(temp_files, input.clip,
                                                     input.clap, failed_at))

Call_calculate_total_score ==
    Return("_calculate_total_score",
           _calculate_total_score(input.basic_result, input.musical_result,
                                  input.semantic_result))

Call_determine_status ==
    Return("_determine_status",
           _determine_status(input.total_score, input.basic_result,
                             input.musical_result, input.semantic_result))

Call_evaluate_single_music ==
    \E failed_at \in TempFileFailures :
        ReturnWith("evaluate_single_music",
                   evaluate_single_music(input.clip, input.clap, input.prompt,
                                         input.raises),
                   evaluate_single_music_temp_files(temp_files, input.clip,
                                                    input.clap, input.raises,
                                                    failed_at))

FilterNext ==
    \/ Call_evaluate_single_music
    \/ Call_check_duration
    \/ Call_check_volume_cutoff
    \/ Call_check_high_frequency_noise
    \/ Call_check_extreme_frequencies
    \/ Call_parse_prompt_components
    \/ Call_run_all_checks
    \/ Call_AMQP_run_quality_checks_with_log
    \/ Call_AMP_run_quality_checks_with_log
    \/ Call_run_musical_checks
    \/ Call_check_prompt_alignment
    \/ Call_calculate_total_score
    \/ Call_determine_status

FilterSpec == FilterInit /\ [][FilterNext]_vars

\* A call has returned.
Returned(fn) == pc = "ret" /\ input.fn = fn

(***************************************************************************)
(* Properties                                                              *)
(***************************************************************************)
\* The evaluation of the attempt in hand is a passing one (read at
\* pc = "persisting", where the evaluation has returned).
EvaluatedPassing ==
    IF controller = EnhancedAdaptiveMusicPipeline
    THEN enhanced_result.status = "EXCELLENT" \/ enhanced_result.status = "GOOD"
    ELSE quality_result.overall_passed

IsGenFailure(a) == ~a.success /\ a.error \in GenErrors
IsSaveFailure(a) == ~a.success /\ a.error \notin GenErrors

\* A record of the log is that of a passing attempt.
PassingRecord(a) ==
    /\ a.success
    /\ IF "status" \in DOMAIN a THEN a.status \in {"EXCELLENT", "GOOD"} ELSE a.passed

\* A step that leaves position p other than by a user abort.
Leaves(p) == pc = p /\ pc' \notin {p, "interrupted"}

\* C1 as stated: the retry loop exits at the first attempt whose evaluation
\* is passing and has no other exit -- an attempt that evaluated as passing is
\* never followed by another generation, and the loop never exits, normally
\* or by a propagated error, on an attempt that did not pass.
C1_AsStated ==
    [][ /\ (pc = "persisting" /\ EvaluatedPassing) => pc' # "loop"
        /\ (pc \in InLoop /\ pc' \in {"reporting", "raised"})
               => (pc = "persisting" /\ EvaluatedPassing) ]_vars

\* C2 as stated: a session in which generation fails k times and attempt k+1
\* generates, passes and is saved runs to completion and returns a result
\* with k+1 attempt records, 1 successful generation and no quality-check
\* failure data; the generation failures are not fatal, the report included.
GenFailuresThenPass(log) ==
    /\ log # << >>
    /\ \A i \in 1..(Len(log) - 1) : IsGenFailure(log[i])
    /\ PassingRecord(Last(log))

C2_AsStated ==
    (pc \in {"returned", "raised"} /\ GenFailuresThenPass(attempts))
        => /\ pc = "returned"
           /\ Len(result.attempts) = attempt_count
           /\ Len(SelectSuccessful(result.attempts)) = 1
           /\ ("failure_reasons" \in DOMAIN report => report.failure_reasons = << >>)

\* C3 as stated: a failure to persist the clip (the step out of Persisting
\* leaves no new file) is recorded in the log as a failed attempt and the
\* loop continues; it never propagates out of process_prompt_adaptive.
C3_AsStated ==
    [][ (Leaves("persisting") /\ saved_files' = saved_files)
            => /\ pc' = "loop"
               /\ Len(attempts') = Len(attempts) + 1
               /\ ~Last(attempts').success ]_vars

\* C4 as stated: an interruption ends the session gracefully, with the
\* attempt history accumulated so far reported rather than lost.
C4_AsStated ==
    (pc = "interrupted" /\ attempts # << >>) => report # None

\* C4 amended: the loop has no interruption check.  A user abort can arrive
\* at any point of process_prompt_adaptive, inside an iteration as well as
\* between two; it leaves the method at once, with no report and no result:
\* the attempt history is dropped, only the files already saved remain.
C4_Interrupt ==
    [][ pc' = "interrupted"
            => /\ report' = None
               /\ result' = None
               /\ exception' = NoneStr
               /\ attempts' = attempts
               /\ saved_files' = saved_files ]_vars

\* Interrupted inside the second iteration, with one attempt in the log.
C4_Witness ==
    /\ pc = "interrupted"
    /\ Len(attempts) = 1
    /\ attempt_count = 2
    /\ saved_files # {}
    /\ report = None

\* C5: the attempt counter is 1 in the first iteration and grows by exactly 1
\* per iteration (it is always the number of finished iterations plus one
\* when an iteration starts); a generation failure, a save failure (None
\* from _save_attempt_file) and a non-passing evaluation each lead back to
\* the loop top, and at the loop top the next iteration always starts: no
\* attempt limit exists (MaxAttempts only bounds the exploration).
C5_AttemptCounter ==
    /\ [][ /\ attempt_count' # attempt_count
                  => /\ pc = "loop" /\ pc' = "generating"
                     /\ attempt_count' = attempt_count + 1
                     /\ attempt_count' = Len(attempts) + 1
           /\ (pc' = "generating" /\ pc # "generating")
                  => attempt_count' = attempt_count + 1
           /\ (Leaves("generating") /\ ~gen_result'.success) => pc' = "loop"
           /\ (Leaves("persisting")
               /\ controller # AdaptiveMusicQualityPipeline
               /\ (filename' = NoneStr \/ ~EvaluatedPassing))
                  => pc' = "loop" ]_vars
    /\ [](pc = "loop" /\ attempt_count < MaxAttempts => ENABLED StartAttempt)

\* Three iterations that ended in a generation failure, a save failure and a
\* non-passing evaluation.
C5_Witness ==
    /\ pc = "loop"
    /\ attempt_count = 3
    /\ Len(attempts) = 3
    /\ \E i, j, k \in 1..3 :
          /\ IsGenFailure(attempts[i])
          /\ IsSaveFailure(attempts[j])
          /\ attempts[k].success /\ ~PassingRecord(attempts[k])

\* C6: on a generation failure the controller appends a record with
\* success = false that carries the generator's error, and neither evaluates
\* nor persists before the next iteration.
C6_GenerationFailure ==
    [][ (Leaves("generating") /\ ~gen_result'.success)
            => /\ gen_result'.error \in GenErrors
               /\ attempts' = Append(attempts,
                      [attempt |-> attempt_count, success |-> FALSE,
                       error |-> gen_result'.error, generation_time |-> Zero])
               /\ pc' = "loop"
               /\ filter_calls' = filter_calls
               /\ enhanced_result' = enhanced_result
               /\ quality_result' = quality_result
               /\ saved_files' = saved_files
               /\ filename' = filename ]_vars

\* A generation failure after an evaluated and saved attempt.
C6_Witness ==
    /\ pc = "loop"
    /\ Len(attempts) = 2
    /\ attempts[1].success
    /\ IsGenFailure(attempts[2])
    /\ Cardinality(saved_files) = 1

\* C7: an iteration of the enhanced controller goes Generating, Evaluating,
\* Persisting in that order: evaluation starts only from a successful
\* generation, persisting only from a finished evaluation, files are written
\* only in Persisting (passing or not), a full record is appended only there
\* and names the file just saved with the evaluation just made, and the loop
\* is left (Done) only from Persisting.
C7_PhaseOrder ==
    [][ controller = EnhancedAdaptiveMusicPipeline
        => /\ (pc' \in EvalStages /\ pc \notin EvalStages)
                  => (pc = "generating" /\ gen_result'.success)
           /\ (pc' = "persisting" /\ pc # "persisting")
                  => (pc \in EvalStages /\ enhanced_result' # None
                      /\ filter_calls' # << >>)
           /\ (saved_files' # saved_files) => pc = "persisting"
           /\ (attempts' # attempts /\ Last(attempts').success)
                  => /\ pc = "persisting"
                     /\ Last(attempts').filename \in saved_files'
                     /\ Last(attempts').filename \notin saved_files
                     /\ Last(attempts').enhanced_result = enhanced_result
           /\ (pc' = "reporting" /\ pc # "reporting") => pc = "persisting" ]_vars

\* The enhanced controller is done after a non-passing clip and a passing
\* clip were both evaluated and saved.
C7_Witness ==
    /\ controller = EnhancedAdaptiveMusicPipeline
    /\ pc = "reporting"
    /\ Len(attempts) = 2
    /\ attempts[1].success /\ attempts[1].status = "RETRY"
    /\ Cardinality(saved_files) = 2

\* C8 as stated: at loop exit the failure-reason table holds exactly the
\* distinct failure reasons of the non-passing attempts, each with its
\* number of occurrences.
FailedChecks(log) ==
    {ic \in (1..Len(log)) \X {"duration", "high_frequency", "extreme_frequencies"} :
        /\ log[ic[1]].success
        /\ ~PassingRecord(log[ic[1]])
        /\ ~log[ic[1]].quality[ic[2]].passed}

ReasonOf(log, ic) == log[ic[1]].quality[ic[2]].reason

ExpectedFailureReasons(log) ==
    [r \in {ReasonOf(log, ic) : ic \in FailedChecks(log)} |->
        Cardinality({ic \in FailedChecks(log) : ReasonOf(log, ic) = r})]

LoopExitedAndReportRan ==
    \/ pc = "returned"
    \/ pc = "raised" /\ controller = AdaptiveMusicPipeline

C8_AsStated ==
    (controller # EnhancedAdaptiveMusicPipeline /\ LoopExitedAndReportRan)
        => /\ report # None
           /\ report.failure_reasons = ExpectedFailureReasons(attempts)

\* C9: when the basic stage fails, evaluate_single_music returns at once
\* with RETRY, 0.0, stage 1 and no musical or semantic result, and only the
\* basic filters have been run.
C9_BasicShortCircuit ==
    (/\ controller = EnhancedAdaptiveMusicPipeline
     /\ pc = "persisting"
     /\ enhanced_result.basic_result # None
     /\ ~enhanced_result.basic_result.overall_passed)
        => /\ enhanced_result.status = "RETRY"
           /\ enhanced_result.total_score = Zero
           /\ enhanced_result.stage_completed = 1
           /\ enhanced_result.musical_result = None
           /\ enhanced_result.semantic_result = None
           /\ filter_calls = <<"basic">>

C9_Witness ==
    /\ controller = EnhancedAdaptiveMusicPipeline
    /\ pc = "persisting"
    /\ enhanced_result.stage_completed = 1
    /\ ~enhanced_result.basic_result.high_frequency.passed

\* C10: an exception at any stage of evaluate_single_music is caught and
\* turned into RETRY, 0.0, stage 0; it never leaves process_prompt_adaptive
\* of the enhanced controller.
C10_EvalErrorsCaught ==
    controller = EnhancedAdaptiveMusicPipeline
        => /\ pc # "raised"
           /\ exception = NoneStr
           /\ eval_error # NoneStr
                  => /\ enhanced_result.status = "RETRY"
                     /\ enhanced_result.total_score = Zero
                     /\ enhanced_result.stage_completed = 0
                     /\ pc # "eval_musical" /\ pc # "eval_semantic"

\* An exception in the third stage, and the session went on to the next
\* attempt.
C10_Witness ==
    /\ controller = EnhancedAdaptiveMusicPipeline
    /\ eval_error # NoneStr
    /\ filter_calls = <<"basic", "musical", "semantic">>
    /\ pc = "generating"
    /\ attempt_count = 2

\* C11 as stated: the score of a clip evaluated under run_enhanced_pipeline is
\* clamp(0.3*basicScore + 0.7*musicalScore, 0, 1), with basicScore 1 or 0
\* and musicalScore the average of the four musical scores when the musical
\* group passed, half of it otherwise.
C11_AsStated ==
    (/\ controller = EnhancedAdaptiveMusicPipeline
     /\ pc = "persisting"
     /\ enhanced_result.stage_completed = 3)
        => LET basic == enhanced_result.basic_result
               musical == enhanced_result.musical_result
               basicScore == IF basic.overall_passed THEN One ELSE Zero
               musicalScore == IF musical.passed THEN musical.avg_score
                               ELSE RatMul(musical.avg_score, Rat(1, 2))
           IN  enhanced_result.total_score =
                   RatMax(Zero, RatMin(One,
                       RatAdd(RatMul(Rat(3, 10), basicScore),
                              RatMul(Rat(7, 10), musicalScore))))

\* C12 as stated: under run_enhanced_pipeline the status of an evaluated clip
\* is RETRY if the basic stage failed, otherwise EXCELLENT iff the score is
\* at least 0.8, GOOD iff it is in [0.65, 0.8), RETRY iff it is below 0.65.
C12_AsStated ==
    (/\ controller = EnhancedAdaptiveMusicPipeline
     /\ pc = "persisting"
     /\ enhanced_result.basic_result # None)
        => enhanced_result.status =
               IF ~enhanced_result.basic_result.overall_passed THEN "RETRY"
               ELSE IF RatLeq(Rat(8, 10), enhanced_result.total_score)
                    THEN "EXCELLENT"
               ELSE IF RatLeq(Rat(65, 100), enhanced_result.total_score)
                    THEN "GOOD"
               ELSE "RETRY"

\* C13: the three-stage score is clamp(0.2*basic + 0.3*musical + 0.4*semantic
\* + 0.1*bonus, 0, 1): basic is 1 if the basic stage passed else 0, musical
\* is the musical average when the musical group passed else 0, semantic is
\* the semantic filter's weighted score, and the bonus is added exactly when
\* the basic stage, the musical group and the semantic filter all passed.
C13_TotalScore ==
    Returned("_calculate_total_score")
        => LET basic == IF input.basic_result.overall_passed THEN One ELSE Zero
               musical == IF input.musical_result.passed
                          THEN input.musical_result.avg_score ELSE Zero
               semantic == input.semantic_result.weighted_score
               allPassed == /\ input.basic_result.overall_passed
                            /\ input.musical_result.passed
                            /\ input.semantic_result.passed
               sum == RatAdd(RatAdd(RatMul(Rat(2, 10), basic),
                                    RatMul(Rat(3, 10), musical)),
                             RatAdd(RatMul(Rat(4, 10), semantic),
                                    IF allPassed THEN Rat(1, 10) ELSE Zero))
           IN  output = IF RatLt(sum, Zero) THEN Zero
                        ELSE IF RatLt(One, sum) THEN One ELSE sum

\* The basic stage passed, the semantic filter failed with a positive score:
\* no bonus, and the score is 0.2 + 0.3*musical + 0.4*semantic.
C13_Witness ==
    /\ Returned("_calculate_total_score")
    /\ input.basic_result.overall_passed
    /\ input.musical_result.passed
    /\ ~input.semantic_result.passed
    /\ RatLt(Zero, input.semantic_result.weighted_score)
    /\ RatLt(Rat(2, 10), output)

\* C14: _determine_status returns RETRY whenever the basic stage failed,
\* whatever the score; otherwise EXCELLENT iff the score is at least 0.7, GOOD
\* iff it is in [0.5, 0.7), RETRY iff it is below 0.5; the musical and
\* semantic results have no other influence.
C14_Status ==
    Returned("_determine_status")
        => LET score == input.total_score
           IN  /\ ~input.basic_result.overall_passed => output = "RETRY"
               /\ input.basic_result.overall_passed
                      => /\ output = "EXCELLENT" <=> RatLeq(Rat(7, 10), score)
                         /\ output = "GOOD" <=> (/\ RatLeq(Rat(5, 10), score)
                                                 /\ RatLt(score, Rat(7, 10)))
                         /\ output = "RETRY" <=> RatLt(score, Rat(5, 10))

\* A score of exactly 0.7 with a failed musical group is EXCELLENT.
C14_Witness ==
    /\ Returned("_determine_status")
    /\ input.basic_result.overall_passed
    /\ ~input.musical_result.passed
    /\ input.total_score = Rat(7, 10)
    /\ output = "EXCELLENT"

\* C15: whatever the outcomes of the three stages -- basic passed or not,
\* any musical results, any semantic result, the early return and the
\* exception return included -- the total_score evaluate_single_music
\* returns is in [0, 1].
C15_ScoreBounds ==
    Returned("evaluate_single_music")
        => /\ RatLeq(Zero, output.total_score)
           /\ RatLeq(output.total_score, One)

\* All three stages passed with the best results: the score carries the
\* bonus and is above 0.95.
C15_Witness ==
    /\ Returned("evaluate_single_music")
    /\ output.stage_completed = 3
    /\ output.semantic_result.passed
    /\ output.musical_result.passed_count = 4
    /\ RatLt(Rat(95, 100), output.total_score)

\* C16: for all 16 combinations of the four musical pass flags the group
\* passes iff at least two checks passed, passed_count is the number of
\* checks that passed, and avg_score is the mean of all four scores, those
\* of failed checks included.
C16_MusicalAggregate ==
    Returned("run_musical_checks")
        => LET m == [rhythm |-> check_rhythm_consistency(input.clip),
                     melody |-> check_melody_existence(input.clip),
                     harmonic |-> check_harmonic_balance(input.clip),
                     flow |-> check_musical_flow(input.clip)]
               one(r) == IF r.passed THEN 1 ELSE 0
               count == one(m.rhythm) + one(m.melody) + one(m.harmonic) + one(m.flow)
               sum == RatAdd(RatAdd(m.rhythm.score, m.melody.score),
                             RatAdd(m.harmonic.score, m.flow.score))
           IN  /\ output.passed <=> count >= 2
               /\ output.passed_count = count
               /\ RatMul(output.avg_score, Rat(4, 1)) = sum
               /\ output.rhythm = m.rhythm /\ output.melody = m.melody
               /\ output.harmonic = m.harmonic /\ output.flow = m.flow

\* Exactly two checks passed; the two that failed have scores 0.4 and 0.2,
\* which count in the average: (0.4 + 0.2 + 1.0 + 0.7) / 4 = 0.575.
C16_Witness ==
    /\ Returned("run_musical_checks")
    /\ output.passed
    /\ output.passed_count = 2
    /\ ~output.rhythm.passed /\ output.rhythm.score = Rat(4, 10)
    /\ ~output.melody.passed /\ output.melody.score = Rat(2, 10)
    /\ output.avg_score = Rat(575, 1000)

\* C17: the basic aggregate consists of exactly the duration, the
\* high-frequency-noise and the extreme-frequency checks (with their default
\* parameters), its overall_passed is the AND of their three pass flags, and
\* the two inline copies in the controllers return what run_all_checks
\* returns for the same clip.
BasicAggregates ==
    {"run_all_checks", "AMQP._run_quality_checks_with_log",
     "AMP._run_quality_checks_with_log"}

C17_BasicAggregate ==
    (pc = "ret" /\ input.fn \in BasicAggregates)
        => /\ DOMAIN output = {"duration", "high_frequency", "extreme_frequencies",
                               "overall_passed"}
           /\ output.duration = check_duration(input.clip, Rat(12, 1), Rat(1, 1))
           /\ output.high_frequency =
                  check_high_frequency_noise(input.clip, 8000, Rat(3, 1))
           /\ output.extreme_frequencies =
                  check_extreme_frequencies(input.clip, 80, 15000, Rat(3, 1))
           /\ output.overall_passed <=> (/\ output.duration.passed
                                         /\ output.high_frequency.passed
                                         /\ output.extreme_frequencies.passed)
           /\ output = run_all_checks(input.clip)

\* An inline copy rejects a 12.0 s clip for its extreme frequencies alone.
C17_Witness ==
    /\ Returned("AMP._run_quality_checks_with_log")
    /\ output.duration.passed
    /\ output.high_frequency.passed
    /\ ~output.extreme_frequencies.passed
    /\ ~output.overall_passed

\* C18: for every clip, expected duration and tolerance, check_duration
\* passes iff len(samples)/sampleRate >= expected - tolerance; a clip exactly
\* at expected - tolerance passes.  (The comparison is made on integers:
\* n/sr >= en/ed - tn/td  iff  n*ed*td >= (en*td - tn*ed)*sr.)
C18_DurationRule ==
    Returned("check_duration")
        => LET n == input.clip.n
               sr == input.clip.sr
               e == input.expected_duration
               t == input.tolerance
           IN  output.passed <=>
                   n * e.den * t.den >= (e.num * t.den - t.num * e.den) * sr

\* A clip of 10.0 s against expected 11.0 s and tolerance 1.0 s: exactly at
\* the boundary, and it passes.
C18_Witness ==
    /\ Returned("check_duration")
    /\ input.clip = [n |-> 320000, sr |-> 32000]
    /\ input.expected_duration = Rat(11, 1)
    /\ input.tolerance = One
    /\ output.passed

\* The clip of the scenario of C19: exactly 11.0 s, checked against expected
\* 12.0 s and tolerance 1.0 s.
ElevenSecondCall ==
    /\ Returned("check_duration")
    /\ input.clip.n = 11 * input.clip.sr
    /\ input.expected_duration = Rat(12, 1)
    /\ input.tolerance = Rat(1, 1)

\* C19 as stated: the 11.0 s clip passes and the reported score is about
\* 0.9167 (11/12, to within 0.0001).
C19_AsStated ==
    ElevenSecondCall
        => /\ output.passed
           /\ RatLt(Rat(9166, 10000), output.score)
           /\ RatLt(output.score, Rat(9168, 10000))

\* C19 amended: the 11.0 s clip passes, and like every passing duration
\* check it reports score 1.0 ("Duration OK: 11.0s"); the ratio
\* duration/expected is reported only by a failing check.
C19_ElevenSeconds ==
    /\ ElevenSecondCall
           => output = CheckResult(TRUE, One, "Duration OK: 11.0s")
    /\ Returned("check_duration")
           => IF output.passed THEN output.score = One
              ELSE output.score = RatDiv(Rat(input.clip.n, input.clip.sr),
                                         input.expected_duration)

C19_Witness ==
    /\ ElevenSecondCall
    /\ input.clip = [n |-> 352000, sr |-> 32000]
    /\ output.passed

\* C20 as stated: check_prompt_alignment returns passed = true with weighted
\* score 0.25 when the similarity oracle is not available, and passed = true
\* with score 0.20 when anything fails inside the check: the scratch file
\* cannot be written, or a similarity computation the check makes raises.
SimilarityComputed(components, key) ==
    key = "full_prompt" \/ components[key] # ""

InternalError ==
    \/ input.clip.sem.error # NoneStr
    \/ \E key \in {"full_prompt", "genre", "emotion", "instrument"} :
          /\ SimilarityComputed(parse_prompt_components(input.prompt), key)
          /\ input.clip.sem.sims[key] = SimilarityFailure

C20_AsStated ==
    Returned("check_prompt_alignment")
        => /\ ~input.clap
               => output.passed /\ output.weighted_score = Rat(25, 100)
           /\ (input.clap /\ InternalError)
               => output.passed /\ output.weighted_score = Rat(20, 100)

\* C21 as stated: when check_prompt_alignment returns, every scratch file
\* created for the call has been deleted, whichever way the call went (also
\* when writing the file raised, and when a similarity computation raised).
C21_AsStated ==
    Returned("check_prompt_alignment") => temp_files = {}

\* The name attempt{N}_{label}_score{S:.2f}[_FINAL].wav.
ScoredName(n, label, score, final) ==
    "attempt" \o ToString(n) \o "_" \o label \o "_score" \o Fmt(score, 2)
    \o (IF final THEN "_FINAL" ELSE "") \o ".wav"

\* The records of the log that name a file.
FileRecords == {i \in 1..Len(attempts) : attempts[i].success}

\* The passing attempt that ended the session.
FinalAttempt(i) ==
    /\ PassingRecord(attempts[i])
    /\ i = Len(attempts)
    /\ pc \notin InLoop

\* Scores with two decimals, and in between.
NameScores == {Rat(k, 1000) : k \in 0..1000}

\* C22 as stated: in every controller variant the files persisted are those
\* the log names, each named attempt{N}_{status or "fail"}_score{S:.2f}
\* followed by _FINAL exactly when the attempt passed and ended the session,
\* and by .wav.
C22_AsStated ==
    /\ saved_files = {attempts[i].filename : i \in FileRecords}
    /\ \A i \in FileRecords :
           \E label \in {"excellent", "good", "pass", "fail"}, s \in NameScores :
               attempts[i].filename = ScoredName(i, label, s, FinalAttempt(i))

\* C22: the files persisted are those the log names.  The enhanced
\* controller names a file attempt{N}_{status in lower case, or "fail"},
\* _score{S:.2f} with S the total score, then _FINAL exactly when the attempt
\* passed and ended the session, then .wav, on both save paths.  The two basic
\* controllers, whose verdict has no score, name it attempt{N}_pass_FINAL.wav
\* when the attempt passed and ended the session and attempt{N}_fail.wav
\* otherwise.  A passing attempt that was saved is the last one.
C22_FileNames ==
    /\ saved_files = {attempts[i].filename : i \in FileRecords}
    /\ \A i \in FileRecords :
           LET a == attempts[i]
           IN  /\ PassingRecord(a) => FinalAttempt(i)
               /\ a.filename =
                     IF controller = EnhancedAdaptiveMusicPipeline
                     THEN ScoredName(i,
                              IF a.status = "EXCELLENT" THEN "excellent"
                              ELSE IF a.status = "GOOD" THEN "good" ELSE "fail",
                              a.total_score, FinalAttempt(i))
                     ELSE "attempt" \o ToString(i)
                          \o (IF FinalAttempt(i) THEN "_pass_FINAL" ELSE "_fail")
                          \o ".wav"

\* The loop of AdaptiveMusicPipeline ended on its third attempt: the first
\* could not be saved, the second was saved as a failure, the third passed.
C22_Witness ==
    /\ controller = AdaptiveMusicPipeline
    /\ pc = "reporting"
    /\ Len(attempts) = 3
    /\ ~attempts[1].success
    /\ attempts[2].success /\ ~attempts[2].passed
    /\ attempts[3].filename = "attempt3_pass_FINAL.wav"
    /\ saved_files = {"attempt2_fail.wav", "attempt3_pass_FINAL.wav"}

LongestRun(frames) ==
    LET runs == {r \in (1..Len(frames)) \X (1..Len(frames)) :
                    r[1] <= r[2] /\ \A k \in r[1]..r[2] : frames[k]}
    IN  IF runs = {} THEN 0
        ELSE CHOOSE m \in 1..Len(frames) :
                 /\ \E r \in runs : r[2] - r[1] + 1 = m
                 /\ \A r \in runs : r[2] - r[1] + 1 <= m

\* A call of check_high_frequency_noise whose spectral analysis went through.
HighFrequencyAnalysed ==
    /\ Returned("check_high_frequency_noise")
    /\ input.clip.stft_error = NoneStr

\* C24: check_high_frequency_noise fails iff the longest run of consecutive
\* dominant frames, in seconds (frames times totalDuration/frameCount), is
\* strictly above duration_threshold; the scan finds the longest run of every
\* frame sequence; a failure scores 1 - seconds/duration_threshold, which is
\* negative (4.0 s against 3.0 s gives -1/3).
C24_HighFrequency ==
    HighFrequencyAnalysed
        => LET clip == input.clip
               run == LongestRun(clip.hf)
               thr == input.duration_threshold
               \* run * n / (sr * frames) > thr, on integers
               exceeds == run * clip.n * thr.den > thr.num * clip.sr * Len(clip.hf)
           IN  /\ max_continuous_frames(clip.hf) = run
               /\ output.passed <=> ~exceeds
               /\ ~output.passed
                      => /\ output.score =
                              Rat(thr.num * clip.sr * Len(clip.hf)
                                      - run * clip.n * thr.den,
                                  thr.num * clip.sr * Len(clip.hf))
                         /\ RatLt(output.score, Zero)
               /\ (clip.n = 384000 /\ run = 1 /\ Len(clip.hf) = 3 /\ thr = Rat(3, 1))
                      => output.score = Rat(-1, 3)

\* A 12.0 s clip in three frames of 4.0 s, the first and the last dominant,
\* checked against 3.0 s: the check failed with score -1/3.
C24_Witness ==
    /\ HighFrequencyAnalysed
    /\ input.clip.n = 384000
    /\ input.clip.hf = <<TRUE, FALSE, TRUE>>
    /\ input.duration_threshold = Rat(3, 1)
    /\ ~output.passed
    /\ output.score = Rat(-1, 3)

\* A call of check_extreme_frequencies whose spectral analysis went through.
ExtremeFrequencyAnalysed ==
    /\ Returned("check_extreme_frequencies")
    /\ input.clip.stft_error = NoneStr

\* The seconds of a run of frames of the clip of the call, and whether
\* they are strictly above the duration threshold (on integers).
RunSeconds(run) == Rat(run * input.clip.n, input.clip.sr * Len(input.clip.low))

RunExceeds(run) ==
    run * input.clip.n * input.duration_threshold.den
        > input.duration_threshold.num * input.clip.sr * Len(input.clip.low)

\* C25: check_extreme_frequencies takes the longest dominant run of the low
\* band and that of the high band, each from its own frames, and fails iff
\* one of them is above duration_threshold; when both are, the failure
\* returned (reason and score) is that of the low band.
C25_ExtremeFrequencies ==
    ExtremeFrequencyAnalysed
        => LET low_run == LongestRun(input.clip.low)
               high_run == LongestRun(input.clip.high)
               thr == input.duration_threshold
           IN  /\ output.passed <=> ~(RunExceeds(low_run) \/ RunExceeds(high_run))
               /\ RunExceeds(low_run)
                      => /\ output.score
                              = RatSub(One, RatDiv(RunSeconds(low_run), thr))
                         /\ output.reason = "Too much low frequency (<80Hz) for "
                                \o Fmt(RunSeconds(low_run), 1) \o "s"
               /\ (~RunExceeds(low_run) /\ RunExceeds(high_run))
                      => /\ output.score
                              = RatSub(One, RatDiv(RunSeconds(high_run), thr))
                         /\ output.reason = "Too much high frequency (>15000Hz) for "
                                \o Fmt(RunSeconds(high_run), 1) \o "s"

\* Both bands are above 3.0 s, the low band for 6.0 s and the high band for
\* 9.0 s: the failure of the low band was returned.
C25_Witness ==
    /\ ExtremeFrequencyAnalysed
    /\ input.clip.low = <<TRUE, TRUE, FALSE, FALSE>>
    /\ input.clip.high = <<FALSE, TRUE, TRUE, TRUE>>
    /\ input.duration_threshold = Rat(3, 1)
    /\ output = CheckResult(FALSE, Rat(-1, 1), "Too much low frequency (<80Hz) for 6.0s")

\* The compound instrument names of the vocabulary.
CompoundInstruments ==
    {"electric guitar", "acoustic guitar", "upright bass", "double bass"}

\* C26 as stated: parse_prompt_components returns, for the emotion and for
\* the instrument, the first vocabulary entry (in vocabulary order) that
\* occurs in the prompt, except that a prompt holding a compound instrument
\* name of the vocabulary gets a compound name it holds and not the single
\* word inside it.
C26_AsStated ==
    Returned("parse_prompt_components")
        => LET words == Words(input.prompt)
               compounds == {c \in CompoundInstruments : Occurs(c, words)}
           IN  /\ output.emotion = FirstMatch(emotion_keywords, words)
               /\ IF compounds # {}
                  THEN output.instrument \in compounds
                  ELSE output.instrument = FirstMatch(instrument_keywords, words)

\* The clip followed by k samples of silence.
WithTrailingSilence(audio_data, k) == audio_data \o [i \in 1..k |-> 0]

MaxAddedSilence == 3

\* C27 as stated: whatever the clip, and whatever the silence added after it,
\* check_volume_cutoff scores the lengthened clip strictly below the clip.
C27_AsStated ==
    Returned("check_volume_cutoff")
        => \A k \in 1..MaxAddedSilence :
               SurdQuotLt(check_volume_cutoff(
                              WithTrailingSilence(input.audio_data, k),
                              input.sample_rate, input.cutoff_threshold).score,
                          output.score)

\* The analysis inside a musical check of the call raised.
Raised(check) == "raised" \in DOMAIN input.clip.musical[check]

\* C28: on an internal error the rhythm-consistency check returns
\* passed = true with score 0.7, while the melody, harmonic-balance and
\* musical-flow checks return passed = false with score 0.0; so a clip on
\* which all four checks raise has passed_count = 1 and fails the group.
C28_ErrorDefaults ==
    Returned("run_musical_checks")
        => /\ Raised("rhythm")
                  => output.rhythm.passed /\ output.rhythm.score = Rat(7, 10)
           /\ \A check \in {"melody", "harmonic", "flow"} :
                  Raised(check)
                      => ~output[check].passed /\ output[check].score = Zero
           /\ (\A check \in {"rhythm", "melody", "harmonic", "flow"} : Raised(check))
                  => output.passed_count = 1 /\ ~output.passed

\* All four analyses raised: one check of four passed and the group failed,
\* with the average (0.7 + 0 + 0 + 0) / 4.
C28_Witness ==
    /\ Returned("run_musical_checks")
    /\ \A check \in {"rhythm", "melody", "harmonic", "flow"} : Raised(check)
    /\ output.passed_count = 1
    /\ ~output.passed
    /\ output.avg_score = Rat(7, 40)

\* The attempt number process_prompt_adaptive returns as that of the success.
success_attempt_number ==
    IF controller = AdaptiveMusicQualityPipeline
    THEN result.summary.success_attempt_number
    ELSE result.success_attempt_number

\* C29: when process_prompt_adaptive has returned, the last record of the log
\* is a successful attempt with a passing outcome and the name of a saved
\* file; no earlier record is passing (each is a generation failure, a save
\* failure or a non-passing evaluation); and the returned
\* success_attempt_number is the length of the log and the attempt index of
\* the passing record.
C29_ReturnedLog ==
    pc = "returned"
        => /\ attempts # << >>
           /\ result.attempts = attempts
           /\ PassingRecord(Last(attempts))
           /\ Last(attempts).filename # NoneStr
           /\ Last(attempts).filename \in saved_files
           /\ \A i \in 1..(Len(attempts) - 1) :
                  \/ IsGenFailure(attempts[i])
                  \/ IsSaveFailure(attempts[i])
                  \/ attempts[i].success /\ ~PassingRecord(attempts[i])
           /\ success_attempt_number = Len(attempts)
           /\ success_attempt_number = Last(attempts).attempt

\* The enhanced controller returned after three attempts: a generation
\* failure, a clip that could not be saved, and a passing clip.
C29_Witness ==
    /\ pc = "returned"
    /\ controller = EnhancedAdaptiveMusicPipeline
    /\ Len(attempts) = 3
    /\ IsGenFailure(attempts[1])
    /\ IsSaveFailure(attempts[2])
    /\ attempts[3].status \in {"EXCELLENT", "GOOD"}
    /\ result.success_attempt_number = 3

\* A call of evaluate_single_music without the similarity model, in which
\* nothing raised.
EvaluatedWithoutOracle ==
    /\ Returned("evaluate_single_music")
    /\ ~input.clap
    /\ input.raises = NoneStr

\* C30: without the similarity model (the semantic stage is a pass with
\* 0.25), evaluate_single_music accepts a clip (GOOD or EXCELLENT) iff the
\* basic stage passed, the musical group passed and the musical avg_score is
\* at least 1/3; a clip whose musical group fails is RETRY; and EXCELLENT
\* requires avg_score = 1.0.
C30_AcceptWithoutOracle ==
    EvaluatedWithoutOracle
        => LET basic == run_all_checks(input.clip)
               musical == run_musical_checks(input.clip)
           IN  /\ output.status \in {"GOOD", "EXCELLENT"}
                      <=> /\ basic.overall_passed
                          /\ musical.passed
                          /\ 3 * musical.avg_score.num >= musical.avg_score.den
               /\ ~musical.passed => output.status = "RETRY"
               /\ output.status = "EXCELLENT" => musical.avg_score = One
               /\ output.stage_completed = 3
                      => output.semantic_result.weighted_score = Rat(25, 100)

\* Without the similarity model a clip whose musical group passed with an
\* average of exactly 1/3 was accepted as GOOD with a total of 0.5.
C30_Witness ==
    /\ EvaluatedWithoutOracle
    /\ output.status = "GOOD"
    /\ output.total_score = Rat(1, 2)
    /\ output.musical_result.passed
    /\ output.musical_result.avg_score = Rat(1, 3)

\* Without the similarity model a clip with every musical check at 1.0 was
\* rated EXCELLENT.
C30_WitnessExcellent ==
    /\ EvaluatedWithoutOracle
    /\ output.status = "EXCELLENT"
    /\ output.musical_result.avg_score = One

====
